---- MODULE Spec2Model ----
(***************************************************************************)
(* Model of the geometry-nodes execution parameter context                 *)
(* (GeoNodeExecParams, node_geometry_exec.cc) of regcs/blender, of the UV  *)
(* sphere node built on it, and of the add-on list (addon.c).              *)
(*                                                                         *)
(* The model is of a build with assertions enabled: a failing BLI_assert   *)
(* or a reached BLI_assert_unreachable aborts the evaluation (halted).     *)
(* One behaviour is one invocation of one node.  The node has the socket   *)
(* layout of an attribute node: a geometry input, an input "A" that exists *)
(* once per socket type (only the variant chosen by the node's input-type  *)
(* setting is available, the others carry SOCK_UNAVAIL) and a string       *)
(* input "B".                                                              *)
(***************************************************************************)
EXTENDS Integers, Sequences, FiniteSets, TLC

VARIABLES
  unavail,        \* input identifiers whose bNodeSocket has flag SOCK_UNAVAIL
  out_unavail,    \* output identifiers whose bNodeSocket has flag SOCK_UNAVAIL
  input_values,   \* provider: the value bound to each input identifier
  consumed,       \* provider: inputs for which can_get_input() is false
  outputs_set,    \* provider: outputs for which can_set_output() is false
  geo_decl,       \* declaration of the "Geometry" input socket
  logger,         \* provider_->logger != nullptr
  log,            \* the records of the thread-local LocalGeoLogger
  console,        \* what check_*_access wrote to std::cout
  halted,         \* an assertion failed: the evaluation was aborted
  last,           \* the call made last: operation, arguments, outcome
  was_read,       \* history: the inputs whose value a call has been handed
  addon_list,     \* addon.c: the ListBase of bAddon the calls are made on
  ensured         \* history: the module names ensured and not removed since

vars == <<unavail, out_unavail, input_values, consumed, outputs_set, geo_decl,
          logger, log, console, halted, last, was_read, addon_list, ensured>>

(***************************************************************************)
(* Bounds of the model.                                                    *)
(***************************************************************************)
MaxLog == 2

(***************************************************************************)
(* Types.                                                                  *)
(***************************************************************************)
nullptr == 0

SocketTypes == {"SOCK_FLOAT", "SOCK_VECTOR", "SOCK_RGBA", "SOCK_BOOLEAN",
                "SOCK_INT", "SOCK_STRING", "SOCK_GEOMETRY"}

CppTypes == {"float", "float3", "ColorGeometry4f", "bool", "int", "string",
             "GeometrySet"}

\* bNodeSocketType::get_geometry_nodes_cpp_type
SocketCppType(type) ==
  CASE type = "SOCK_FLOAT"    -> "float"
    [] type = "SOCK_VECTOR"   -> "float3"
    [] type = "SOCK_RGBA"     -> "ColorGeometry4f"
    [] type = "SOCK_BOOLEAN"  -> "bool"
    [] type = "SOCK_INT"      -> "int"
    [] type = "SOCK_STRING"   -> "string"
    [] type = "SOCK_GEOMETRY" -> "GeometrySet"

\* bke::custom_data_type_to_cpp_type
CustomDataTypes == {"CD_PROP_FLOAT", "CD_PROP_INT32", "CD_PROP_FLOAT3",
                    "CD_PROP_COLOR", "CD_PROP_BOOL"}

custom_data_type_to_cpp_type(type) ==
  CASE type = "CD_PROP_FLOAT"  -> "float"
    [] type = "CD_PROP_INT32"  -> "int"
    [] type = "CD_PROP_FLOAT3" -> "float3"
    [] type = "CD_PROP_COLOR"  -> "ColorGeometry4f"
    [] type = "CD_PROP_BOOL"   -> "bool"

AttributeDomains == {"ATTR_DOMAIN_POINT", "ATTR_DOMAIN_EDGE", "ATTR_DOMAIN_CORNER",
                     "ATTR_DOMAIN_FACE", "ATTR_DOMAIN_CURVE"}

NodeWarningTypes == {"Error", "Warning", "Info"}

(***************************************************************************)
(* The node: provider_->dnode->inputs() and outputs(), in socket order.    *)
(***************************************************************************)
Inputs == <<
  [identifier |-> "Geometry", name |-> "Geometry", type |-> "SOCK_GEOMETRY"],
  [identifier |-> "A",        name |-> "A",        type |-> "SOCK_STRING"],
  [identifier |-> "A_001",    name |-> "A",        type |-> "SOCK_FLOAT"],
  [identifier |-> "A_002",    name |-> "A",        type |-> "SOCK_INT"],
  [identifier |-> "A_003",    name |-> "A",        type |-> "SOCK_VECTOR"],
  [identifier |-> "A_004",    name |-> "A",        type |-> "SOCK_RGBA"],
  [identifier |-> "A_005",    name |-> "A",        type |-> "SOCK_BOOLEAN"],
  [identifier |-> "B",        name |-> "B",        type |-> "SOCK_STRING"] >>

Outputs == <<
  [identifier |-> "Geometry", name |-> "Geometry", type |-> "SOCK_GEOMETRY"],
  [identifier |-> "Result",   name |-> "Result",   type |-> "SOCK_FLOAT"],
  [identifier |-> "Result_001", name |-> "Result", type |-> "SOCK_VECTOR"] >>

InputIds == {Inputs[i].identifier : i \in DOMAIN Inputs}
OutputIds == {Outputs[i].identifier : i \in DOMAIN Outputs}

\* The identifiers of the variants of input "A".
VariantIds == {Inputs[i].identifier : i \in {j \in DOMAIN Inputs : Inputs[j].name = "A"}}

\* InputSocketRef::is_available
is_available(socket) == socket.identifier \notin unavail

out_is_available(socket) == socket.identifier \notin out_unavail

\* The first of the socket indices `hits`, nullptr when there is none
\* (the for loops with break / return of the lookups).
FirstIndex(hits) ==
  IF hits = {} THEN nullptr
  ELSE CHOOSE i \in hits : \A j \in hits : i <= j

\* const CPPType *requested_type = nullptr
no_type == "nullptr"

\* GeoNodeExecParamsProvider::can_get_input / can_set_output
can_get_input(identifier) == identifier \notin consumed

can_set_output(identifier) == identifier \notin outputs_set

(***************************************************************************)
(* check_input_access / check_output_access.  The result is what was       *)
(* written to std::cout and whether BLI_assert_unreachable was reached.    *)
(***************************************************************************)
AccessOk == [unreachable |-> FALSE, cout |-> <<>>]

AccessFail(msg) == [unreachable |-> TRUE, cout |-> <<msg>>]

\* check_input_access without its test of the SOCK_UNAVAIL flag.
check_input_access_ignoring_flag(identifier, requested_type) ==
  LET found_socket == FirstIndex({i \in DOMAIN Inputs : Inputs[i].identifier = identifier})
  IN IF found_socket = nullptr
       THEN AccessFail([text |-> "Did not find an input socket with the identifier",
                        identifier |-> identifier])
     ELSE IF ~can_get_input(identifier)
       THEN AccessFail([text |-> "The identifier is valid, but there is no value for it anymore",
                        identifier |-> identifier])
     ELSE IF requested_type # no_type
               /\ requested_type # SocketCppType(Inputs[found_socket].type)
       THEN AccessFail([text |-> "The requested type is incorrect",
                        identifier |-> identifier])
     ELSE AccessOk

\* check_input_access without its test of can_get_input.
check_input_access_ignoring_provider(identifier, requested_type) ==
  LET found_socket == FirstIndex({i \in DOMAIN Inputs : Inputs[i].identifier = identifier})
  IN IF found_socket = nullptr
       THEN AccessFail([text |-> "Did not find an input socket with the identifier",
                        identifier |-> identifier])
     ELSE IF Inputs[found_socket].identifier \in unavail
       THEN AccessFail([text |-> "The socket corresponding to the identifier is disabled",
                        identifier |-> identifier])
     ELSE IF requested_type # no_type
               /\ requested_type # SocketCppType(Inputs[found_socket].type)
       THEN AccessFail([text |-> "The requested type is incorrect",
                        identifier |-> identifier])
     ELSE AccessOk

check_input_access(identifier, requested_type) ==
  LET found_socket == FirstIndex({i \in DOMAIN Inputs : Inputs[i].identifier = identifier})
  IN IF found_socket = nullptr
       THEN AccessFail([text |-> "Did not find an input socket with the identifier",
                        identifier |-> identifier])
     ELSE IF Inputs[found_socket].identifier \in unavail
       THEN AccessFail([text |-> "The socket corresponding to the identifier is disabled",
                        identifier |-> identifier])
     ELSE IF ~can_get_input(identifier)
       THEN AccessFail([text |-> "The identifier is valid, but there is no value for it anymore",
                        identifier |-> identifier])
     ELSE IF requested_type # no_type
       THEN LET expected_type == SocketCppType(Inputs[found_socket].type)
            IN IF requested_type # expected_type
                 THEN AccessFail([text |-> "The requested type is incorrect",
                                  identifier |-> identifier])
                 ELSE AccessOk
     ELSE AccessOk

\* check_output_access without its test of can_set_output.
check_output_access_ignoring_provider(identifier, value_type) ==
  LET found_socket == FirstIndex({i \in DOMAIN Outputs : Outputs[i].identifier = identifier})
  IN IF found_socket = nullptr
       THEN AccessFail([text |-> "Did not find an output socket with the identifier",
                        identifier |-> identifier])
     ELSE IF Outputs[found_socket].identifier \in out_unavail
       THEN AccessFail([text |-> "The socket corresponding to the identifier is disabled",
                        identifier |-> identifier])
     ELSE IF value_type # SocketCppType(Outputs[found_socket].type)
       THEN AccessFail([text |-> "The value type is incorrect",
                        identifier |-> identifier])
     ELSE AccessOk

check_output_access(identifier, value_type) ==
  LET found_socket == FirstIndex({i \in DOMAIN Outputs : Outputs[i].identifier = identifier})
  IN IF found_socket = nullptr
       THEN AccessFail([text |-> "Did not find an output socket with the identifier",
                        identifier |-> identifier])
     ELSE IF Outputs[found_socket].identifier \in out_unavail
       THEN AccessFail([text |-> "The socket corresponding to the identifier is disabled",
                        identifier |-> identifier])
     ELSE IF ~can_set_output(identifier)
       THEN AccessFail([text |-> "The identifier has been set already",
                        identifier |-> identifier])
     ELSE LET expected_type == SocketCppType(Outputs[found_socket].type)
          IN IF value_type # expected_type
               THEN AccessFail([text |-> "The value type is incorrect",
                                identifier |-> identifier])
               ELSE AccessOk

(***************************************************************************)
(* Values.  A float is held as a whole number of halves (3 is 1.5), so     *)
(* that a conversion to int has something to truncate; a float3 and a      *)
(* color are tuples of such floats, a bool is 0 or 1.                      *)
(***************************************************************************)
Value(type, v, s) == [type |-> type, v |-> v, s |-> s]

NoValue == Value("nullptr", <<>>, "")

\* CPPType::default_value
default_value_of(cpp_type) ==
  CASE cpp_type = "float"           -> Value("float", <<0>>, "")
    [] cpp_type = "int"             -> Value("int", <<0>>, "")
    [] cpp_type = "float3"          -> Value("float3", <<0, 0, 0>>, "")
    [] cpp_type = "ColorGeometry4f" -> Value("ColorGeometry4f", <<0, 0, 0, 0>>, "")
    [] cpp_type = "bool"            -> Value("bool", <<0>>, "")
    [] cpp_type = "string"          -> Value("string", <<>>, "")
    [] cpp_type = "GeometrySet"     -> Value("GeometrySet", <<>>, "")

\* (int)f for a float held in halves: truncation toward zero.
FloatToInt(h) == IF h >= 0 THEN h \div 2 ELSE -((-h) \div 2)

\* The float a vector or a color projects to: the average of its three
\* components, rounded toward zero to a representable float.
Average3(t) ==
  LET sum == t[1] + t[2] + t[3]
  IN IF sum >= 0 THEN sum \div 3 ELSE -((-sum) \div 3)

\* The float of any numeric value.
AsFloat(value) ==
  CASE value.type = "float"           -> value.v[1]
    [] value.type = "int"             -> 2 * value.v[1]
    [] value.type = "bool"            -> 2 * value.v[1]
    [] value.type = "float3"          -> Average3(value.v)
    [] value.type = "ColorGeometry4f" -> Average3(value.v)

\* DataTypeConversions::convert_to_uninitialized(from_type, to_type, value, buffer):
\* a copy when the types are equal, the registered conversion otherwise.
convert_to_uninitialized(from_type, to_type, value) ==
  IF from_type = to_type THEN value
  ELSE CASE to_type = "float" -> Value("float", <<AsFloat(value)>>, "")
         [] to_type = "int"   -> Value("int", <<FloatToInt(AsFloat(value))>>, "")
         [] to_type = "bool"  ->
              Value("bool", <<IF from_type = "float3"
                                THEN (IF value.v = <<0, 0, 0>> THEN 0 ELSE 1)
                                ELSE (IF AsFloat(value) > 0 THEN 1 ELSE 0)>>, "")
         [] to_type = "float3" ->
              Value("float3",
                    IF from_type = "ColorGeometry4f"
                      THEN <<value.v[1], value.v[2], value.v[3]>>
                      ELSE <<AsFloat(value), AsFloat(value), AsFloat(value)>>, "")
         [] to_type = "ColorGeometry4f" ->
              Value("ColorGeometry4f",
                    IF from_type = "float3"
                      THEN <<value.v[1], value.v[2], value.v[3], 2>>
                      ELSE <<AsFloat(value), AsFloat(value), AsFloat(value), 2>>, "")

(***************************************************************************)
(* The provider's typed accessors (NOD_geometry_exec.hh).                  *)
(***************************************************************************)
\* get_input<T>(identifier): the access check, then the bound value.  The
\* input stays available.
get_input(identifier, T) ==
  LET access == check_input_access(identifier, T)
  IN [halted |-> access.unreachable,
      cout   |-> access.cout,
      value  |-> IF access.unreachable THEN NoValue ELSE input_values[identifier]]

\* The outcome of one call, as kept in `last`.
Outcome(op, args, aborted, assert, diags, result, reads) ==
  [op |-> op, args |-> args, halted |-> aborted, assert |-> assert,
   diags |-> diags, result |-> result, reads |-> reads]

NoCall == Outcome("none", <<>>, FALSE, "", <<>>, <<>>, <<>>)

\* GetInput(identifier, T): params.get_input<T>(identifier).
GetInput(identifier, T) ==
  /\ ~halted
  /\ LET in == get_input(identifier, T)
     IN /\ halted' = in.halted
        /\ console' = console \o in.cout
        /\ was_read' = IF in.halted THEN was_read ELSE was_read \cup {identifier}
        /\ last' = Outcome("get_input", [identifier |-> identifier, T |-> T], in.halted,
                           IF in.halted THEN "BLI_assert_unreachable" ELSE "",
                           <<>>, in.value,
                           IF in.halted THEN <<>> ELSE <<identifier>>)
  /\ UNCHANGED <<addon_list, ensured, unavail, out_unavail, input_values, consumed, outputs_set, geo_decl,
                 logger, log>>

\* ExtractInput(identifier, T): params.extract_input<T>(identifier): the access
\* check, then the value is moved out of the provider, which has no value for
\* the input afterwards.
ExtractInput(identifier, T) ==
  /\ ~halted
  /\ LET in == get_input(identifier, T)
     IN /\ halted' = in.halted
        /\ console' = console \o in.cout
        /\ consumed' = IF in.halted THEN consumed ELSE consumed \cup {identifier}
        /\ was_read' = IF in.halted THEN was_read ELSE was_read \cup {identifier}
        /\ last' = Outcome("extract_input", [identifier |-> identifier, T |-> T],
                           in.halted,
                           IF in.halted THEN "BLI_assert_unreachable" ELSE "",
                           <<>>, in.value,
                           IF in.halted THEN <<>> ELSE <<identifier>>)
  /\ UNCHANGED <<addon_list, ensured, unavail, out_unavail, input_values, outputs_set, geo_decl,
                 logger, log>>

\* SetOutput(identifier, value_type): params.set_output(identifier, value) with a
\* value of type value_type: the access check, then the provider takes the value.
SetOutput(identifier, value_type) ==
  /\ ~halted
  /\ LET access == check_output_access(identifier, value_type)
     IN /\ halted' = access.unreachable
        /\ console' = console \o access.cout
        /\ outputs_set' = IF access.unreachable THEN outputs_set
                          ELSE outputs_set \cup {identifier}
        /\ last' = Outcome("set_output",
                           [identifier |-> identifier, T |-> value_type],
                           access.unreachable,
                           IF access.unreachable THEN "BLI_assert_unreachable" ELSE "",
                           <<>>, NoValue, <<>>)
  /\ UNCHANGED <<addon_list, ensured, unavail, out_unavail, input_values, consumed, geo_decl,
                 logger, log, was_read>>

(***************************************************************************)
(* Geometry components and attribute views.                                *)
(***************************************************************************)
\* GeometryComponent::attribute_domain_size
attribute_domain_size(component, domain) == component.sizes[domain]

\* Whether the component has an attribute of that name, and its meta data
\* (GeometryComponent::attribute_get_meta_data: std::optional<AttributeMetaData>).
has_attribute(component, name) == \E a \in component.attributes : a.name = name

attribute_get_meta_data(component, name) ==
  CHOOSE a \in component.attributes : a.name = name

View(kind, type, size, value, attr) ==
  [kind |-> kind, type |-> type, size |-> size, value |-> value, attr |-> attr]

\* An empty GVArrayPtr.
NoView == View("none", "", 0, NoValue, "")

\* fn::GVArray_For_SingleValue(type, size, value)
GVArray_For_SingleValue(cpp_type, size, value) ==
  View("single", cpp_type, size, value, "")

\* GeometryComponent::attribute_try_get_for_read(name, domain, type): the named
\* attribute adapted to the domain and the type, empty when there is none.
attribute_try_get_for_read(component, name, domain, type) ==
  IF has_attribute(component, name)
    THEN View("attribute", custom_data_type_to_cpp_type(type),
              attribute_domain_size(component, domain), NoValue, name)
    ELSE NoView

\* GVArray::get(index): what the view yields at an index.
ViewGet(view, index) ==
  IF view.kind = "single" THEN view.value
  ELSE Value("element", <<index>>, view.attr)

Diagnostic(type, message, arg) == [type |-> type, message |-> message, arg |-> arg]

(***************************************************************************)
(* find_available_socket and get_input_attribute.                          *)
(***************************************************************************)
find_available_socket(name) ==
  FirstIndex({i \in DOMAIN Inputs : is_available(Inputs[i]) /\ Inputs[i].name = name})

\* What a call returns to its caller, or how it was aborted.
Returned(diags, result, reads) ==
  [halted |-> FALSE, assert |-> "", cout |-> <<>>, diags |-> diags,
   result |-> result, reads |-> reads]

Aborted(assert, cout, result) ==
  [halted |-> TRUE, assert |-> assert, cout |-> cout, diags |-> <<>>,
   result |-> result, reads |-> <<>>]

\* The branch without the assertion: what found_socket == nullptr returns once
\* BLI_assert is compiled out.
UnboundBranch_without_assert(cpp_type, domain_size, default_value) ==
  Returned(<<>>, GVArray_For_SingleValue(cpp_type, domain_size, default_value), <<>>)

\* found_socket == nullptr: BLI_assert(found_socket != nullptr) fails before
\* the single-value return behind it is reached.
UnboundBranch(cpp_type, domain_size, default_value) ==
  Aborted("BLI_assert(found_socket != nullptr)", <<>>, NoView)

\* A literal branch that hands the literal on without converting it.
LiteralBranch_without_conversion(identifier, literal_type, cpp_type, domain_size) ==
  LET in == get_input(identifier, literal_type)
  IN IF in.halted THEN Aborted("BLI_assert_unreachable", in.cout, NoView)
     ELSE Returned(<<>>, GVArray_For_SingleValue(cpp_type, domain_size, in.value),
                   <<identifier>>)

\* One of the four literal branches: the literal is read as literal_type,
\* converted to cpp_type and broadcast over the domain.
LiteralBranch(identifier, literal_type, cpp_type, domain_size) ==
  LET in == get_input(identifier, literal_type)
  IN IF in.halted THEN Aborted("BLI_assert_unreachable", in.cout, NoView)
     ELSE Returned(<<>>,
                   GVArray_For_SingleValue(
                     cpp_type, domain_size,
                     convert_to_uninitialized(literal_type, cpp_type, in.value)),
                   <<identifier>>)

NoAttributeSeverity_Info == "Info"

\* The severity of the "No attribute with name" message.
NoAttributeSeverity == "Error"

\* A SOCK_STRING branch that reports a missing attribute whenever the name is
\* not empty, also on an empty domain.
StringBranch_reporting_on_empty_domain(identifier, component, domain, type, cpp_type, domain_size, default_value) ==
  LET in == get_input(identifier, "string")
  IN IF in.halted THEN Aborted("BLI_assert_unreachable", in.cout, NoView)
     ELSE LET name == in.value.s
              attribute == attribute_try_get_for_read(component, name, domain, type)
          IN IF attribute # NoView
               THEN Returned(<<>>, attribute, <<identifier>>)
               ELSE Returned(
                      IF name # ""
                        THEN <<Diagnostic(NoAttributeSeverity,
                                          "No attribute with name", name)>>
                        ELSE <<>>,
                      GVArray_For_SingleValue(cpp_type, domain_size, default_value),
                      <<identifier>>)

\* The SOCK_STRING branch.
StringBranch(identifier, component, domain, type, cpp_type, domain_size, default_value) ==
  LET in == get_input(identifier, "string")
  IN IF in.halted THEN Aborted("BLI_assert_unreachable", in.cout, NoView)
     ELSE LET name == in.value.s
              attribute == attribute_try_get_for_read(component, name, domain, type)
          IN IF attribute # NoView
               THEN Returned(<<>>, attribute, <<identifier>>)
               ELSE Returned(
                      IF name # "" /\ attribute_domain_size(component, domain) # 0
                        THEN <<Diagnostic(NoAttributeSeverity,
                                          "No attribute with name", name)>>
                        ELSE <<>>,
                      GVArray_For_SingleValue(cpp_type, domain_size, default_value),
                      <<identifier>>)

get_input_attribute(name, component, domain, type, default_value_arg) ==
  LET found_socket == find_available_socket(name)
      cpp_type == custom_data_type_to_cpp_type(type)
      domain_size == attribute_domain_size(component, domain)
      default_value == IF default_value_arg = NoValue
                         THEN default_value_of(cpp_type)
                         ELSE default_value_arg
  IN IF found_socket = nullptr
       THEN UnboundBranch(cpp_type, domain_size, default_value)
     ELSE LET socket == Inputs[found_socket]
          IN CASE socket.type = "SOCK_STRING" ->
                    StringBranch(socket.identifier, component, domain, type, cpp_type,
                                 domain_size, default_value)
               [] socket.type = "SOCK_FLOAT" ->
                    LiteralBranch(socket.identifier, "float", cpp_type, domain_size)
               [] socket.type = "SOCK_INT" ->
                    LiteralBranch(socket.identifier, "int", cpp_type, domain_size)
               [] socket.type = "SOCK_VECTOR" ->
                    LiteralBranch(socket.identifier, "float3", cpp_type, domain_size)
               [] socket.type = "SOCK_RGBA" ->
                    LiteralBranch(socket.identifier, "ColorGeometry4f", cpp_type,
                                  domain_size)
               [] OTHER -> Aborted("BLI_assert(false)", <<>>, NoView)

(***************************************************************************)
(* error_message_add: one record per message, tagged with the node, in the *)
(* local logger; nothing without a logger.                                 *)
(***************************************************************************)
NodeName == "node"

log_node_warning(records, type, message) ==
  Append(records, [node |-> NodeName, type |-> type, message |-> message])

\* error_message_add without its test of provider_->logger.
error_message_add_without_logger_test(records, type, message) ==
  log_node_warning(records, type, message)

error_message_add(records, type, message) ==
  IF ~logger THEN records
  ELSE log_node_warning(records, type, message)

\* The messages of one call, added in order.
RECURSIVE AddAll(_, _)
AddAll(records, diags) ==
  IF diags = <<>> THEN records
  ELSE AddAll(error_message_add(records, Head(diags).type,
                                [text |-> Head(diags).message, arg |-> Head(diags).arg]),
              Tail(diags))

\* GetInputAttribute: params.get_input_attribute(name, component, domain, type,
\* default_value).
GetInputAttribute(name, component, domain, type, default_value) ==
  /\ ~halted
  /\ Len(log) < MaxLog
  /\ LET r == get_input_attribute(name, component, domain, type, default_value)
     IN /\ halted' = r.halted
        /\ console' = console \o r.cout
        /\ log' = AddAll(log, r.diags)
        /\ was_read' = was_read \cup {r.reads[i] : i \in DOMAIN r.reads}
        /\ last' = Outcome("get_input_attribute",
                           [name |-> name, component |-> component, domain |-> domain,
                            type |-> type, default_value |-> default_value],
                           r.halted, r.assert, r.diags, r.result, r.reads)
  /\ UNCHANGED <<addon_list, ensured, unavail, out_unavail, input_values, consumed, outputs_set, geo_decl,
                 logger>>

(***************************************************************************)
(* get_input_attribute_data_type and get_highest_priority_input_domain.    *)
(***************************************************************************)
\* get_input_attribute_data_type that never asks the component for the
\* attribute's metadata.
get_input_attribute_data_type_ignoring_meta_data(name, component, default_type) ==
  LET found_socket == find_available_socket(name)
  IN IF found_socket = nullptr
       THEN Aborted("BLI_assert(found_socket != nullptr)", <<>>, default_type)
     ELSE LET socket == Inputs[found_socket]
          IN CASE socket.type = "SOCK_STRING" ->
                    LET in == get_input(socket.identifier, "string")
                    IN IF in.halted
                         THEN Aborted("BLI_assert_unreachable", in.cout, default_type)
                       ELSE Returned(<<>>, default_type, <<socket.identifier>>)
               [] socket.type = "SOCK_FLOAT"   -> Returned(<<>>, "CD_PROP_FLOAT", <<>>)
               [] socket.type = "SOCK_VECTOR"  -> Returned(<<>>, "CD_PROP_FLOAT3", <<>>)
               [] socket.type = "SOCK_RGBA"    -> Returned(<<>>, "CD_PROP_COLOR", <<>>)
               [] socket.type = "SOCK_BOOLEAN" -> Returned(<<>>, "CD_PROP_BOOL", <<>>)
               [] OTHER -> Aborted("BLI_assert(false)", <<>>, default_type)

get_input_attribute_data_type(name, component, default_type) ==
  LET found_socket == find_available_socket(name)
  IN IF found_socket = nullptr
       THEN Aborted("BLI_assert(found_socket != nullptr)", <<>>, default_type)
     ELSE LET socket == Inputs[found_socket]
          IN CASE socket.type = "SOCK_STRING" ->
                    LET in == get_input(socket.identifier, "string")
                    IN IF in.halted
                         THEN Aborted("BLI_assert_unreachable", in.cout, default_type)
                       ELSE IF has_attribute(component, in.value.s)
                         THEN Returned(<<>>,
                                attribute_get_meta_data(component, in.value.s).data_type,
                                <<socket.identifier>>)
                       ELSE Returned(<<>>, default_type, <<socket.identifier>>)
               [] socket.type = "SOCK_FLOAT"   -> Returned(<<>>, "CD_PROP_FLOAT", <<>>)
               [] socket.type = "SOCK_VECTOR"  -> Returned(<<>>, "CD_PROP_FLOAT3", <<>>)
               [] socket.type = "SOCK_RGBA"    -> Returned(<<>>, "CD_PROP_COLOR", <<>>)
               [] socket.type = "SOCK_BOOLEAN" -> Returned(<<>>, "CD_PROP_BOOL", <<>>)
               [] OTHER -> Aborted("BLI_assert(false)", <<>>, default_type)

\* GetInputAttributeDataType: params.get_input_attribute_data_type(name,
\* component, default_type).
GetInputAttributeDataType(name, component, default_type) ==
  /\ ~halted
  /\ LET r == get_input_attribute_data_type(name, component, default_type)
     IN /\ halted' = r.halted
        /\ console' = console \o r.cout
        /\ was_read' = was_read \cup {r.reads[i] : i \in DOMAIN r.reads}
        /\ last' = Outcome("get_input_attribute_data_type",
                           [name |-> name, component |-> component,
                            default_type |-> default_type],
                           r.halted, r.assert, r.diags, r.result, r.reads)
  /\ UNCHANGED <<addon_list, ensured, unavail, out_unavail, input_values, consumed, outputs_set, geo_decl,
                 logger, log>>

\* The fixed total order of the domains: a greater number is a higher priority.
attribute_domain_priority(domain) ==
  CASE domain = "ATTR_DOMAIN_CURVE"  -> 0
    [] domain = "ATTR_DOMAIN_EDGE"   -> 1
    [] domain = "ATTR_DOMAIN_FACE"   -> 2
    [] domain = "ATTR_DOMAIN_POINT"  -> 3
    [] domain = "ATTR_DOMAIN_CORNER" -> 4

\* bke::attribute_domain_highest_priority(domains), domains not empty.
attribute_domain_highest_priority(domains) ==
  LET in == {domains[i] : i \in DOMAIN domains}
  IN CHOOSE d \in in :
       \A e \in in : attribute_domain_priority(e) <= attribute_domain_priority(d)

\* The loop over the names: the domains appended to input_domains so far and the
\* inputs read so far are carried along.
RECURSIVE CollectInputDomains(_, _, _, _)
CollectInputDomains(names, component, input_domains, reads) ==
  IF names = <<>> THEN Returned(<<>>, input_domains, reads)
  ELSE LET found_socket == find_available_socket(Head(names))
       IN IF found_socket = nullptr
            THEN [Aborted("BLI_assert(found_socket != nullptr)", <<>>, input_domains)
                    EXCEPT !.reads = reads]
          ELSE IF Inputs[found_socket].type = "SOCK_STRING"
            THEN LET identifier == Inputs[found_socket].identifier
                     in == get_input(identifier, "string")
                 IN IF in.halted
                      THEN [Aborted("BLI_assert_unreachable", in.cout, input_domains)
                              EXCEPT !.reads = reads]
                    ELSE CollectInputDomains(
                           Tail(names), component,
                           IF has_attribute(component, in.value.s)
                             THEN Append(input_domains,
                                         attribute_get_meta_data(component, in.value.s).domain)
                             ELSE input_domains,
                           Append(reads, identifier))
          ELSE CollectInputDomains(Tail(names), component, input_domains, reads)

\* get_highest_priority_input_domain returning the domain collected first.
get_highest_priority_input_domain_first(names, component, default_domain) ==
  LET collected == CollectInputDomains(names, component, <<>>, <<>>)
  IN IF collected.halted THEN [collected EXCEPT !.result = default_domain]
     ELSE IF Len(collected.result) > 0
       THEN [collected EXCEPT !.result = collected.result[1]]
     ELSE [collected EXCEPT !.result = default_domain]

get_highest_priority_input_domain(names, component, default_domain) ==
  LET collected == CollectInputDomains(names, component, <<>>, <<>>)
  IN IF collected.halted THEN [collected EXCEPT !.result = default_domain]
     ELSE IF Len(collected.result) > 0
       THEN [collected EXCEPT !.result = attribute_domain_highest_priority(collected.result)]
     ELSE [collected EXCEPT !.result = default_domain]

\* GetHighestPriorityInputDomain: params.get_highest_priority_input_domain(names,
\* component, default_domain).
GetHighestPriorityInputDomain(names, component, default_domain) ==
  /\ ~halted
  /\ LET r == get_highest_priority_input_domain(names, component, default_domain)
     IN /\ halted' = r.halted
        /\ console' = console \o r.cout
        /\ was_read' = was_read \cup {r.reads[i] : i \in DOMAIN r.reads}
        /\ last' = Outcome("get_highest_priority_input_domain",
                           [names |-> names, component |-> component,
                            default_domain |-> default_domain],
                           r.halted, r.assert, r.diags, r.result, r.reads)
  /\ UNCHANGED <<addon_list, ensured, unavail, out_unavail, input_values, consumed, outputs_set, geo_decl,
                 logger, log>>

(***************************************************************************)
(* Geometry sets and check_input_geometry_set.  A geometry set is the set  *)
(* of its component types and the set of the component types held by the   *)
(* geometry its instances refer to.                                        *)
(***************************************************************************)
GeometryComponentTypes == <<"GEO_COMPONENT_TYPE_MESH", "GEO_COMPONENT_TYPE_POINT_CLOUD",
                            "GEO_COMPONENT_TYPE_INSTANCES", "GEO_COMPONENT_TYPE_VOLUME",
                            "GEO_COMPONENT_TYPE_CURVE">>

\* GeometrySet::has_instances
has_instances(geometry_set) == "GEO_COMPONENT_TYPE_INSTANCES" \in geometry_set.components

\* GeometrySet::has_realized_data: a component other than the instances.
has_realized_data(geometry_set) ==
  geometry_set.components \ {"GEO_COMPONENT_TYPE_INSTANCES"} # {}

\* GeometrySet::gather_component_types(include_instances, include_nested_instances):
\* each type present once, the instanced geometry's types included.
RECURSIVE TypesFrom(_, _)
TypesFrom(present, i) ==
  IF i > Len(GeometryComponentTypes) THEN <<>>
  ELSE (IF GeometryComponentTypes[i] \in present
          THEN <<GeometryComponentTypes[i]>> ELSE <<>>)
       \o TypesFrom(present, i + 1)

gather_component_types(geometry_set, include_instances, include_nested_instances) ==
  LET own == IF include_instances THEN geometry_set.components
             ELSE geometry_set.components \ {"GEO_COMPONENT_TYPE_INSTANCES"}
      nested == IF include_nested_instances THEN geometry_set.instanced ELSE {}
  IN TypesFrom(own \cup nested, 1)

\* The loop over types_in_geometry: the messages added so far are carried along.
RECURSIVE UnsupportedTypeMessages(_, _, _)
UnsupportedTypeMessages(types_in_geometry, supported_types, diags) ==
  IF types_in_geometry = <<>> THEN Returned(diags, <<>>, <<>>)
  ELSE LET type == Head(types_in_geometry)
           rest == Tail(types_in_geometry)
       IN IF type = "GEO_COMPONENT_TYPE_INSTANCES"
            THEN UnsupportedTypeMessages(rest, supported_types, diags)
          ELSE IF type \in supported_types
            THEN UnsupportedTypeMessages(rest, supported_types, diags)
          ELSE CASE type = "GEO_COMPONENT_TYPE_MESH" ->
                      UnsupportedTypeMessages(rest, supported_types,
                        Append(diags, Diagnostic("Info",
                                 "Input geometry has unsupported type: ", "Mesh")))
                 [] type = "GEO_COMPONENT_TYPE_POINT_CLOUD" ->
                      UnsupportedTypeMessages(rest, supported_types,
                        Append(diags, Diagnostic("Info",
                                 "Input geometry has unsupported type: ", "Point Cloud")))
                 [] type = "GEO_COMPONENT_TYPE_INSTANCES" ->
                      [Aborted("BLI_assert_unreachable", <<>>, <<>>) EXCEPT !.diags = diags]
                 [] type = "GEO_COMPONENT_TYPE_VOLUME" ->
                      UnsupportedTypeMessages(rest, supported_types,
                        Append(diags, Diagnostic("Info",
                                 "Input geometry has unsupported type: ", "Volume")))
                 [] type = "GEO_COMPONENT_TYPE_CURVE" ->
                      UnsupportedTypeMessages(rest, supported_types,
                        Append(diags, Diagnostic("Info",
                                 "Input geometry has unsupported type: ", "Curve")))

\* The declaration of an input socket as a decl::Geometry: the dynamic_cast
\* gives nullptr for a socket of another kind.
IsGeometryDeclaration(identifier) ==
  \E i \in DOMAIN Inputs :
    Inputs[i].identifier = identifier /\ Inputs[i].type = "SOCK_GEOMETRY"

\* check_input_geometry_set with the second check chained to the first by an else.
check_input_geometry_set_chained(identifier, geometry_set) ==
  IF ~IsGeometryDeclaration(identifier) THEN Returned(<<>>, <<>>, <<>>)
  ELSE LET first == IF geo_decl.only_realized_data /\ has_instances(geometry_set)
                      THEN <<Diagnostic("Info",
                                        "Instances in input geometry are ignored", "")>>
                      ELSE <<>>
           second == IF first = <<>> /\ geo_decl.only_instances
                          /\ has_realized_data(geometry_set)
                       THEN <<Diagnostic("Info",
                                         "Realized data in input geometry is ignored", "")>>
                       ELSE <<>>
       IN IF geo_decl.supported_types = {} THEN Returned(first \o second, <<>>, <<>>)
          ELSE UnsupportedTypeMessages(
                 gather_component_types(geometry_set, TRUE, TRUE),
                 geo_decl.supported_types, first \o second)

\* check_input_geometry_set without the early return for an empty supported_types.
check_input_geometry_set_without_return(identifier, geometry_set) ==
  IF ~IsGeometryDeclaration(identifier) THEN Returned(<<>>, <<>>, <<>>)
  ELSE LET first == IF geo_decl.only_realized_data /\ has_instances(geometry_set)
                      THEN <<Diagnostic("Info",
                                        "Instances in input geometry are ignored", "")>>
                      ELSE <<>>
           second == IF geo_decl.only_instances /\ has_realized_data(geometry_set)
                       THEN <<Diagnostic("Info",
                                         "Realized data in input geometry is ignored", "")>>
                       ELSE <<>>
       IN UnsupportedTypeMessages(
            gather_component_types(geometry_set, TRUE, TRUE),
            geo_decl.supported_types, first \o second)

check_input_geometry_set(identifier, geometry_set) ==
  IF ~IsGeometryDeclaration(identifier) THEN Returned(<<>>, <<>>, <<>>)
  ELSE LET only_realized_data == geo_decl.only_realized_data
           only_instances == geo_decl.only_instances
           supported_types == geo_decl.supported_types
           first == IF only_realized_data /\ has_instances(geometry_set)
                      THEN <<Diagnostic("Info",
                                        "Instances in input geometry are ignored", "")>>
                      ELSE <<>>
           second == IF only_instances /\ has_realized_data(geometry_set)
                       THEN <<Diagnostic("Info",
                                         "Realized data in input geometry is ignored", "")>>
                       ELSE <<>>
       IN IF supported_types = {} THEN Returned(first \o second, <<>>, <<>>)
          ELSE UnsupportedTypeMessages(
                 gather_component_types(geometry_set, TRUE, TRUE), supported_types,
                 first \o second)

\* CheckInputGeometrySet: params.check_input_geometry_set(identifier, geometry_set).
CheckInputGeometrySet(identifier, geometry_set) ==
  /\ ~halted
  /\ Len(log) < MaxLog
  /\ LET r == check_input_geometry_set(identifier, geometry_set)
     IN /\ halted' = r.halted
        /\ log' = AddAll(log, r.diags)
        /\ last' = Outcome("check_input_geometry_set",
                           [identifier |-> identifier, geometry_set |-> geometry_set],
                           r.halted, r.assert, r.diags, r.result, r.reads)
  /\ UNCHANGED <<addon_list, ensured, unavail, out_unavail, input_values, consumed, outputs_set, geo_decl,
                 logger, console, was_read>>

\* ErrorMessageAdd: params.error_message_add(type, message).
ErrorMessageAdd(type, message) ==
  /\ ~halted
  /\ Len(log) < MaxLog
  /\ log' = error_message_add(log, type, [text |-> message, arg |-> ""])
  /\ last' = Outcome("error_message_add", [type |-> type, message |-> message],
                     FALSE, "", <<Diagnostic(type, message, "")>>, <<>>, <<>>)
  /\ UNCHANGED <<addon_list, ensured, unavail, out_unavail, input_values, consumed, outputs_set, geo_decl,
                 logger, console, halted, was_read>>

(***************************************************************************)
(* The invocations explored.                                               *)
(***************************************************************************)
\* Components handed to the attribute functions: an empty one, a mesh with a
\* point and a corner attribute, a curve with a curve attribute.
EmptyComponent ==
  [attributes |-> {}, sizes |-> [d \in AttributeDomains |-> 0]]

MeshComponent ==
  [attributes |-> {[name |-> "position", domain |-> "ATTR_DOMAIN_POINT",
                    data_type |-> "CD_PROP_FLOAT3"],
                   [name |-> "color", domain |-> "ATTR_DOMAIN_CORNER",
                    data_type |-> "CD_PROP_COLOR"],
                   [name |-> "crease", domain |-> "ATTR_DOMAIN_EDGE",
                    data_type |-> "CD_PROP_FLOAT"]},
   sizes |-> [d \in AttributeDomains |->
                CASE d = "ATTR_DOMAIN_POINT"  -> 3
                  [] d = "ATTR_DOMAIN_EDGE"   -> 3
                  [] d = "ATTR_DOMAIN_CORNER" -> 3
                  [] d = "ATTR_DOMAIN_FACE"   -> 1
                  [] OTHER -> 0]]

CurveComponent ==
  [attributes |-> {[name |-> "position", domain |-> "ATTR_DOMAIN_POINT",
                    data_type |-> "CD_PROP_FLOAT3"],
                   [name |-> "tilt", domain |-> "ATTR_DOMAIN_CURVE",
                    data_type |-> "CD_PROP_INT32"]},
   sizes |-> [d \in AttributeDomains |->
                CASE d = "ATTR_DOMAIN_POINT" -> 2
                  [] d = "ATTR_DOMAIN_CURVE" -> 1
                  [] OTHER -> 0]]

Components == {EmptyComponent, MeshComponent, CurveComponent}

\* The values an input socket of a type may be bound to.
ValuesOf(type) ==
  CASE type = "SOCK_STRING"   -> {Value("string", <<>>, ""),
                                  Value("string", <<>>, "position"),
                                  Value("string", <<>>, "color"),
                                  Value("string", <<>>, "missing")}
    [] type = "SOCK_FLOAT"    -> {Value("float", <<3>>, ""), Value("float", <<-5>>, "")}
    [] type = "SOCK_INT"      -> {Value("int", <<2>>, ""), Value("int", <<-1>>, "")}
    [] type = "SOCK_VECTOR"   -> {Value("float3", <<2, 3, 6>>, ""),
                                  Value("float3", <<0, 0, 0>>, "")}
    [] type = "SOCK_RGBA"     -> {Value("ColorGeometry4f", <<1, 2, 2, 1>>, ""),
                                  Value("ColorGeometry4f", <<0, -4, 0, 2>>, "")}
    [] type = "SOCK_BOOLEAN"  -> {Value("bool", <<1>>, "")}
    [] type = "SOCK_GEOMETRY" -> {Value("GeometrySet", <<>>, "")}

\* The value every socket is bound to unless the invocation says otherwise.
DefaultValueOf(type) ==
  CASE type = "SOCK_STRING" -> Value("string", <<>>, "position")
    [] type = "SOCK_FLOAT"  -> Value("float", <<3>>, "")
    [] type = "SOCK_INT"    -> Value("int", <<2>>, "")
    [] type = "SOCK_VECTOR" -> Value("float3", <<2, 3, 6>>, "")
    [] type = "SOCK_RGBA"   -> Value("ColorGeometry4f", <<1, 2, 2, 1>>, "")
    [] OTHER -> default_value_of(SocketCppType(type))

SocketOf(identifier) ==
  Inputs[CHOOSE i \in DOMAIN Inputs : Inputs[i].identifier = identifier]

DefaultDeclaration ==
  [only_realized_data |-> FALSE, only_instances |-> FALSE, supported_types |-> {}]

\* The state at the start of an invocation: `variant` is the available variant
\* of input "A" ("none": all disabled), bound to a_value; input "B" is bound to
\* b_value; the outputs in output_off are disabled.
InitWith(variant, a_value, b_value, output_off, declaration, has_logger) ==
  /\ unavail = VariantIds \ {variant}
  /\ out_unavail = output_off
  /\ input_values = [id \in InputIds |->
                       IF id = variant THEN a_value
                       ELSE IF id = "B" THEN b_value
                       ELSE DefaultValueOf(SocketOf(id).type)]
  /\ consumed = {}
  /\ outputs_set = {}
  /\ geo_decl = declaration
  /\ logger = has_logger
  /\ log = <<>>
  /\ console = <<>>
  /\ halted = FALSE
  /\ last = NoCall
  /\ was_read = {}
  /\ addon_list = <<>>
  /\ ensured = {}

(***************************************************************************)
(* Spec: the access discipline of one invocation.                          *)
(***************************************************************************)
AccessVariants == {"A", "A_001", "none"}

AccessIdentifiers == {"Geometry", "A", "A_001", "B", "Unknown"}

AccessOutputIdentifiers == OutputIds \cup {"Unknown"}

AccessTypes == {"string", "float", "float3", "GeometrySet"}

Init ==
  \E variant \in AccessVariants, output_off \in {{"Result"}, {"Result_001"}} :
    InitWith(variant,
             IF variant = "none" THEN NoValue ELSE DefaultValueOf(SocketOf(variant).type),
             Value("string", <<>>, "color"), output_off, DefaultDeclaration, FALSE)

Next ==
  \/ \E identifier \in AccessIdentifiers, T \in AccessTypes : GetInput(identifier, T)
  \/ \E identifier \in AccessIdentifiers, T \in AccessTypes : ExtractInput(identifier, T)
  \/ \E identifier \in AccessOutputIdentifiers, T \in AccessTypes : SetOutput(identifier, T)
  \/ \E name \in {"A", "B"} :
       GetInputAttribute(name, MeshComponent, "ATTR_DOMAIN_POINT", "CD_PROP_FLOAT", NoValue)
  \/ \E name \in {"A", "B"} :
       GetInputAttributeDataType(name, MeshComponent, "CD_PROP_FLOAT")
  \/ \E names \in {<<"A">>, <<"B">>, <<"B", "A">>} :
       GetHighestPriorityInputDomain(names, MeshComponent, "ATTR_DOMAIN_POINT")

Spec == Init /\ [][Next]_vars

(***************************************************************************)
(* SpecAttr: the resolution of attribute inputs.  Every variant of input   *)
(* "A" and every value it may be bound to is explored; the calls draw      *)
(* their component, domain, type and default value from small sets.        *)
(***************************************************************************)
AttrVariants == VariantIds \cup {"none"}

AttrDomains == {"ATTR_DOMAIN_POINT", "ATTR_DOMAIN_CURVE"}

\* The default_value arguments tried for a type: none, and a value of the type
\* that is not the type's default.
DefaultArguments(type) ==
  {NoValue,
   CASE type = "CD_PROP_FLOAT"  -> Value("float", <<7>>, "")
     [] type = "CD_PROP_INT32"  -> Value("int", <<4>>, "")
     [] type = "CD_PROP_FLOAT3" -> Value("float3", <<1, 1, 5>>, "")
     [] type = "CD_PROP_COLOR"  -> Value("ColorGeometry4f", <<2, 0, 2, 2>>, "")
     [] type = "CD_PROP_BOOL"   -> Value("bool", <<1>>, "")}

AttrNameLists == {<<>>, <<"A">>, <<"B">>, <<"A", "B">>, <<"B", "A">>}

InitAttr ==
  \E variant \in AttrVariants, has_logger \in BOOLEAN :
    \E a_value \in (IF variant = "none" THEN {NoValue}
                    ELSE ValuesOf(SocketOf(variant).type)) :
      InitWith(variant, a_value, Value("string", <<>>, "color"), {"Result_001"},
               DefaultDeclaration, has_logger)

NextAttr ==
  \/ \E name \in {"A"}, component \in Components, domain \in AttrDomains,
        type \in CustomDataTypes :
       \E default_value \in DefaultArguments(type) :
         GetInputAttribute(name, component, domain, type, default_value)
  \/ \E name \in {"A"}, component \in Components,
        default_type \in {"CD_PROP_FLOAT", "CD_PROP_BOOL"} :
       GetInputAttributeDataType(name, component, default_type)
  \/ \E names \in AttrNameLists, component \in Components,
        default_domain \in {"ATTR_DOMAIN_POINT", "ATTR_DOMAIN_FACE"} :
       GetHighestPriorityInputDomain(names, component, default_domain)

SpecAttr == InitAttr /\ [][NextAttr]_vars

(***************************************************************************)
(* SpecGeo: the checks of a geometry input against its declaration, and    *)
(* the logger.                                                             *)
(***************************************************************************)
SupportedTypeSets ==
  {{},
   {"GEO_COMPONENT_TYPE_MESH"},
   {"GEO_COMPONENT_TYPE_MESH", "GEO_COMPONENT_TYPE_POINT_CLOUD", "GEO_COMPONENT_TYPE_CURVE"},
   {"GEO_COMPONENT_TYPE_VOLUME", "GEO_COMPONENT_TYPE_INSTANCES"}}

GeoDeclarations ==
  [only_realized_data : BOOLEAN, only_instances : BOOLEAN,
   supported_types : SupportedTypeSets]

\* The geometry sets checked: any components among mesh, instances, volume and
\* curve; instances refer to nothing, to a point cloud, or to a mesh and a curve.
GeometrySets ==
  {g \in [components : SUBSET {"GEO_COMPONENT_TYPE_MESH", "GEO_COMPONENT_TYPE_INSTANCES",
                               "GEO_COMPONENT_TYPE_VOLUME", "GEO_COMPONENT_TYPE_CURVE"},
          instanced : {{}, {"GEO_COMPONENT_TYPE_POINT_CLOUD"},
                       {"GEO_COMPONENT_TYPE_MESH", "GEO_COMPONENT_TYPE_CURVE"}}] :
     g.instanced # {} => "GEO_COMPONENT_TYPE_INSTANCES" \in g.components}

InitGeo ==
  \E declaration \in GeoDeclarations, has_logger \in BOOLEAN :
    InitWith("A", Value("string", <<>>, "position"), Value("string", <<>>, "color"),
             {"Result_001"}, declaration, has_logger)

NextGeo ==
  \/ \E identifier \in {"Geometry", "B"}, geometry_set \in GeometrySets :
       CheckInputGeometrySet(identifier, geometry_set)
  \/ \E type \in NodeWarningTypes : ErrorMessageAdd(type, "message")

SpecGeo == InitGeo /\ [][NextGeo]_vars

(***************************************************************************)
(* Properties of the access discipline.                                    *)
(***************************************************************************)
Range(seq) == {seq[i] : i \in DOMAIN seq}

\* The four cases in which get_input<T>(identifier) is refused, in a state.
InputUnknown(identifier) == identifier \notin InputIds

InputDisabled(identifier) == identifier \in InputIds /\ identifier \in unavail

InputGone(identifier) == identifier \in InputIds /\ identifier \in consumed

InputTypeDiffers(identifier, T) ==
  identifier \in InputIds /\ T # SocketCppType(SocketOf(identifier).type)

InputRefused(identifier, T) ==
  \/ InputUnknown(identifier)
  \/ InputDisabled(identifier)
  \/ InputGone(identifier)
  \/ InputTypeDiffers(identifier, T)

\* C1: a get_input<T>(identifier) or extract_input<T>(identifier) made in a state
\* where the identifier is unknown, the socket disabled, the value gone or T not
\* the socket's type prints exactly one diagnostic to the console and halts; made
\* in any other state it prints nothing, does not halt and returns the bound value.
C1_InputAccessContract ==
  [][(last'.op \in {"get_input", "extract_input"}) =>
       LET identifier == last'.args.identifier
           T == last'.args.T
       IN IF InputRefused(identifier, T)
            THEN /\ halted'
                 /\ Len(console') = Len(console) + 1
                 /\ console'[Len(console')].identifier = identifier
                 /\ last'.assert = "BLI_assert_unreachable"
            ELSE /\ ~halted'
                 /\ console' = console
                 /\ console' = <<>>
                 /\ last'.result = input_values[identifier]]_vars

\* C1 witness: a get_input of a known, enabled socket with the right type was
\* refused because the value had been extracted.
C1_Witness ==
  /\ last.op = "get_input"
  /\ halted
  /\ last.args.identifier \in consumed
  /\ ~InputDisabled(last.args.identifier)
  /\ ~InputTypeDiffers(last.args.identifier, last.args.T)
  /\ Len(console) = 1

OutputUnknown(identifier) == identifier \notin OutputIds

OutputDisabled(identifier) == identifier \in OutputIds /\ identifier \in out_unavail

OutputAlreadySet(identifier) == identifier \in OutputIds /\ identifier \in outputs_set

OutputTypeDiffers(identifier, T) ==
  /\ identifier \in OutputIds
  /\ T # SocketCppType(
           Outputs[CHOOSE i \in DOMAIN Outputs : Outputs[i].identifier = identifier].type)

OutputRefused(identifier, T) ==
  \/ OutputUnknown(identifier)
  \/ OutputDisabled(identifier)
  \/ OutputAlreadySet(identifier)
  \/ OutputTypeDiffers(identifier, T)

\* C2: a set_output(identifier, value) made in a state where the identifier is
\* unknown, the socket disabled, the output already set or the value's type not the
\* socket's type prints exactly one diagnostic and halts; made in any other state
\* it prints nothing, does not halt and the output is set.
C2_OutputAccessContract ==
  [][(last'.op = "set_output") =>
       LET identifier == last'.args.identifier
           T == last'.args.T
       IN IF OutputRefused(identifier, T)
            THEN /\ halted'
                 /\ Len(console') = Len(console) + 1
                 /\ console'[Len(console')].identifier = identifier
                 /\ outputs_set' = outputs_set
            ELSE /\ ~halted'
                 /\ console' = console
                 /\ console' = <<>>
                 /\ outputs_set' = outputs_set \cup {identifier}]_vars

\* C2 witness: a set_output of a known, enabled output with the right type was
\* refused because the output had been set before.
C2_Witness ==
  /\ last.op = "set_output"
  /\ halted
  /\ last.args.identifier \in outputs_set
  /\ ~OutputDisabled(last.args.identifier)
  /\ ~OutputTypeDiffers(last.args.identifier, last.args.T)
  /\ Len(console) = 1

\* The inputs a call read more than once.
ReadTwice(reads) ==
  {reads[i] : i \in {k \in DOMAIN reads : \E m \in DOMAIN reads : m # k /\ reads[m] = reads[k]}}

\* C3 as stated: no call is handed the value of an input that a call has been
\* handed before (by an earlier call, or earlier in the same call), and no
\* set_output is accepted for an output that is already set.
C3_Original_ReadOnceWriteOnce ==
  [][/\ Range(last'.reads) \cap was_read = {}
     /\ ReadTwice(last'.reads) = {}
     /\ (last'.op = "set_output" /\ ~halted') => last'.args.identifier \notin outputs_set]_vars

\* C3 amended: no input is extracted twice, no output is written twice, and once
\* an input has been extracted no call is handed its value again; a call refused
\* for that reason halts.
C3_ExtractOnceWriteOnce ==
  [][/\ Range(last'.reads) \cap consumed = {}
     /\ (last'.op = "extract_input" /\ ~halted') => last'.args.identifier \notin consumed
     /\ (last'.op = "set_output" /\ ~halted') => last'.args.identifier \notin outputs_set
     /\ (last'.op \in {"get_input", "extract_input"}
           /\ last'.args.identifier \in consumed) => halted'
     /\ (last'.op = "set_output" /\ last'.args.identifier \in outputs_set) => halted']_vars

\* C3 witness: an input was extracted, an output was written, and a later read
\* of the extracted input through get_input_attribute was refused.
C3_Witness ==
  /\ halted
  /\ last.op = "get_input_attribute"
  /\ last.assert = "BLI_assert_unreachable"
  /\ \E identifier \in consumed : console[Len(console)].identifier = identifier
  /\ outputs_set # {}

(***************************************************************************)
(* Properties of the attribute inputs.                                     *)
(***************************************************************************)
\* The arguments of the last call, when it was a get_input_attribute.
LastAttr == last.op = "get_input_attribute"

\* The available socket of a name: its index, nullptr when there is none.
\* An available socket is neither disabled nor of another name.
BoundSocket(name) ==
  IF \E i \in DOMAIN Inputs : Inputs[i].name = name /\ Inputs[i].identifier \notin unavail
    THEN CHOOSE i \in DOMAIN Inputs :
           /\ Inputs[i].name = name
           /\ Inputs[i].identifier \notin unavail
           /\ \A j \in 1..(i - 1) :
                ~(Inputs[j].name = name /\ Inputs[j].identifier \notin unavail)
    ELSE nullptr

\* The default a get_input_attribute call falls back to.
LastDefault ==
  IF last.args.default_value = NoValue
    THEN default_value_of(custom_data_type_to_cpp_type(last.args.type))
    ELSE last.args.default_value

LastDomainSize == last.args.component.sizes[last.args.domain]

\* A view of `size` elements that yields `value` at every index.
IsBroadcast(view, size, value) ==
  /\ view.kind = "single"
  /\ view.size = size
  /\ \A index \in 0..(size - 1) : ViewGet(view, index) = value

\* C4 as stated: get_input_attribute for a name without an available socket does
\* not halt, emits no diagnostic and returns the broadcast of the default value
\* over the domain.
C4_Original_UnboundReturnsDefault ==
  (LastAttr /\ BoundSocket(last.args.name) = nullptr) =>
    /\ ~halted
    /\ last.diags = <<>>
    /\ IsBroadcast(last.result, LastDomainSize, LastDefault)

\* C4 amended: with assertions enabled, get_input_attribute for a name without an
\* available socket fails BLI_assert(found_socket != nullptr): the evaluation
\* halts, no view is returned, and nothing is logged or printed.
C4_UnboundAsserts ==
  (LastAttr /\ BoundSocket(last.args.name) = nullptr) =>
    /\ halted
    /\ last.assert = "BLI_assert(found_socket != nullptr)"
    /\ last.result = NoView
    /\ last.diags = <<>>
    /\ console = <<>>

\* C4 witness: the call was made on a non-empty domain while every variant of the
\* input was disabled.
C4_Witness ==
  /\ LastAttr
  /\ BoundSocket(last.args.name) = nullptr
  /\ LastDomainSize > 0
  /\ last.args.default_value # NoValue
  /\ halted

\* The last call was a get_input_attribute resolved through a string socket.
LastAttrString ==
  /\ LastAttr
  /\ BoundSocket(last.args.name) # nullptr
  /\ Inputs[BoundSocket(last.args.name)].type = "SOCK_STRING"

LastAttrName == input_values[Inputs[BoundSocket(last.args.name)].identifier].s

LastAttrFound ==
  \E a \in last.args.component.attributes : a.name = LastAttrName

\* C5: get_input_attribute through a string socket whose named attribute is not
\* on the component emits one "No attribute with name" message iff the name is
\* not empty and the domain is not empty, and returns the broadcast of the
\* default over the domain; a found attribute is returned itself, with no message.
C5_MissingAttributeDiagnostic ==
  LastAttrString =>
    /\ ~halted
    /\ IF LastAttrFound
         THEN /\ last.diags = <<>>
              /\ last.result.kind = "attribute"
              /\ last.result.attr = LastAttrName
              /\ last.result.size = LastDomainSize
         ELSE /\ (last.diags # <<>>) <=> (LastAttrName # "" /\ LastDomainSize # 0)
              /\ Len(last.diags) <= 1
              /\ \A i \in DOMAIN last.diags :
                   /\ last.diags[i].message = "No attribute with name"
                   /\ last.diags[i].arg = LastAttrName
              /\ IsBroadcast(last.result, LastDomainSize, LastDefault)

\* C5 witness: an empty name on a non-empty domain: the default, and no message.
C5_Witness ==
  /\ LastAttrString
  /\ LastAttrName = ""
  /\ LastDomainSize > 0
  /\ last.diags = <<>>
  /\ last.result.kind = "single"

\* C6 as stated: a message of get_input_attribute has severity Info or Warning,
\* never Error.
C6_Original_SeverityInfo ==
  LastAttr => \A i \in DOMAIN last.diags : last.diags[i].type \in {"Info", "Warning"}

\* C6 amended: the message get_input_attribute emits for a missing attribute has
\* severity Error; the call still returns the default broadcast without halting,
\* and an attached logger holds the message as its newest record, tagged Error.
C6_SeverityError ==
  (LastAttr /\ last.diags # <<>>) =>
    /\ \A i \in DOMAIN last.diags : last.diags[i].type = "Error"
    /\ ~halted
    /\ IsBroadcast(last.result, LastDomainSize, LastDefault)
    /\ logger => /\ log # <<>>
                 /\ log[Len(log)] = [node |-> NodeName, type |-> "Error",
                                     message |-> [text |-> "No attribute with name",
                                                  arg |-> last.diags[1].arg]]

\* C6 witness: a missing attribute was reported to an attached logger.
C6_Witness ==
  /\ LastAttrString
  /\ last.diags # <<>>
  /\ logger
  /\ log # <<>>

\* The C++ type a literal socket type is read as.
LiteralTypeOf(socket_type) ==
  CASE socket_type = "SOCK_FLOAT"  -> "float"
    [] socket_type = "SOCK_INT"    -> "int"
    [] socket_type = "SOCK_VECTOR" -> "float3"
    [] socket_type = "SOCK_RGBA"   -> "ColorGeometry4f"

\* C7: get_input_attribute through a float, int, vector or color socket returns a
\* broadcast view over the domain of the socket's literal converted from the
\* literal's type to the requested type, with no message; through a socket of any
\* type other than those and string it halts on BLI_assert(false).
C7_LiteralBroadcast ==
  (LastAttr /\ BoundSocket(last.args.name) # nullptr) =>
    LET socket == Inputs[BoundSocket(last.args.name)]
    IN IF socket.type \in {"SOCK_FLOAT", "SOCK_INT", "SOCK_VECTOR", "SOCK_RGBA"}
         THEN /\ ~halted
              /\ last.diags = <<>>
              /\ last.result.type = custom_data_type_to_cpp_type(last.args.type)
              /\ last.result.value.type = last.result.type
              /\ IsBroadcast(last.result, LastDomainSize,
                             convert_to_uninitialized(
                               LiteralTypeOf(socket.type),
                               custom_data_type_to_cpp_type(last.args.type),
                               input_values[socket.identifier]))
       ELSE IF socket.type = "SOCK_STRING" THEN TRUE
       ELSE /\ halted
            /\ last.assert = "BLI_assert(false)"

\* C7 witness: the int literal 2 requested as a float3 on three points: the view
\* holds the vector (2.0, 2.0, 2.0), in halves.
C7_Witness ==
  /\ LastAttr
  /\ BoundSocket(last.args.name) # nullptr
  /\ Inputs[BoundSocket(last.args.name)].type = "SOCK_INT"
  /\ input_values["A_002"] = Value("int", <<2>>, "")
  /\ last.args.type = "CD_PROP_FLOAT3"
  /\ last.result.size = 3
  /\ last.result.value = Value("float3", <<4, 4, 4>>, "")

\* The domains get_highest_priority_input_domain has to choose from: those of the
\* attributes named by the string sockets among the named inputs.
VotingDomains(names, component) ==
  {a.domain : a \in {b \in component.attributes :
     \E k \in DOMAIN names :
       /\ BoundSocket(names[k]) # nullptr
       /\ Inputs[BoundSocket(names[k])].type = "SOCK_STRING"
       /\ input_values[Inputs[BoundSocket(names[k])].identifier].s = b.name}}

\* C10: a get_highest_priority_input_domain that returns gives the default domain
\* when no named input is a string socket naming an attribute of the component,
\* and otherwise a domain of such an attribute that no other such attribute's
\* domain outranks.
C10_HighestPriorityDomain ==
  (last.op = "get_highest_priority_input_domain" /\ ~halted) =>
    LET voting == VotingDomains(last.args.names, last.args.component)
    IN IF voting = {} THEN last.result = last.args.default_domain
       ELSE /\ last.result \in voting
            /\ \A d \in voting :
                 attribute_domain_priority(d) <= attribute_domain_priority(last.result)

\* C10 witness: two string inputs naming a point and a corner attribute, asked for
\* in that order with the face domain as default: the corner domain is returned.
C10_Witness ==
  /\ last.op = "get_highest_priority_input_domain"
  /\ ~halted
  /\ last.args.names = <<"A", "B">>
  /\ last.args.default_domain = "ATTR_DOMAIN_FACE"
  /\ VotingDomains(last.args.names, last.args.component)
       = {"ATTR_DOMAIN_POINT", "ATTR_DOMAIN_CORNER"}
  /\ last.result = "ATTR_DOMAIN_CORNER"

(***************************************************************************)
(* Properties of check_input_geometry_set.                                 *)
(***************************************************************************)
\* The last call was a check_input_geometry_set of the geometry input.
LastGeo ==
  /\ last.op = "check_input_geometry_set"
  /\ last.args.identifier = "Geometry"

InstancesIgnored == Diagnostic("Info", "Instances in input geometry are ignored", "")

RealizedIgnored == Diagnostic("Info", "Realized data in input geometry is ignored", "")

\* How often a message occurs among the messages of the last call.
Occurrences(diag) == Cardinality({i \in DOMAIN last.diags : last.diags[i] = diag})

\* The messages of the last call about an unsupported type.
UnsupportedAt ==
  {i \in DOMAIN last.diags :
     last.diags[i].message = "Input geometry has unsupported type: "}

\* The component types in a geometry set, those of instanced geometry included.
TypesIn(geometry_set) == geometry_set.components \cup geometry_set.instanced

HumanName(type) ==
  CASE type = "GEO_COMPONENT_TYPE_MESH"        -> "Mesh"
    [] type = "GEO_COMPONENT_TYPE_POINT_CLOUD" -> "Point Cloud"
    [] type = "GEO_COMPONENT_TYPE_VOLUME"      -> "Volume"
    [] type = "GEO_COMPONENT_TYPE_CURVE"       -> "Curve"
    [] OTHER -> "Instances"

\* C8: check_input_geometry_set never halts; it emits the instances-ignored
\* message (once) iff only_realized_data is set and the geometry has instances, and
\* the realized-data-ignored message (once) iff only_instances is set and the
\* geometry has a component other than instances, each whatever the other does.
\* A mesh with instances, checked against a declaration that sets only_realized_data
\* and nothing else (only_instances unset, no type it holds unsupported), gets
\* exactly the instances-ignored message.
C8_IndependentChecks ==
  (last.op = "check_input_geometry_set" => ~halted)
  /\ (LastGeo =>
       LET geometry_set == last.args.geometry_set
           instances == "GEO_COMPONENT_TYPE_INSTANCES" \in geometry_set.components
           realized == \E t \in geometry_set.components : t # "GEO_COMPONENT_TYPE_INSTANCES"
       IN /\ Occurrences(InstancesIgnored)
               = (IF geo_decl.only_realized_data /\ instances THEN 1 ELSE 0)
          /\ Occurrences(RealizedIgnored)
               = (IF geo_decl.only_instances /\ realized THEN 1 ELSE 0)
          /\ (/\ geometry_set.components
                   = {"GEO_COMPONENT_TYPE_MESH", "GEO_COMPONENT_TYPE_INSTANCES"}
              /\ geo_decl.only_realized_data
              /\ ~geo_decl.only_instances
              /\ \/ geo_decl.supported_types = {}
                 \/ TypesIn(geometry_set) \ {"GEO_COMPONENT_TYPE_INSTANCES"}
                      \subseteq geo_decl.supported_types)
             => last.diags = <<InstancesIgnored>>)

\* C8 witness: a mesh with instances against a declaration with both flags set:
\* both messages in one call.
C8_Witness ==
  /\ LastGeo
  /\ last.args.geometry_set.components
       = {"GEO_COMPONENT_TYPE_MESH", "GEO_COMPONENT_TYPE_INSTANCES"}
  /\ geo_decl.only_realized_data
  /\ geo_decl.only_instances
  /\ Occurrences(InstancesIgnored) = 1
  /\ Occurrences(RealizedIgnored) = 1

\* C9 as stated: with a non-empty supported_types there is one unsupported-type
\* message for every component type in the geometry that is not supported, and
\* none with an empty supported_types.
C9_Original_EveryUnsupportedType ==
  LastGeo =>
    IF geo_decl.supported_types = {} THEN UnsupportedAt = {}
    ELSE /\ Cardinality(UnsupportedAt)
              = Cardinality(TypesIn(last.args.geometry_set) \ geo_decl.supported_types)
         /\ \A t \in TypesIn(last.args.geometry_set) \ geo_decl.supported_types :
              \E i \in UnsupportedAt : last.diags[i].arg = HumanName(t)

\* C9 amended: with a non-empty supported_types there is exactly one
\* unsupported-type message, of severity Info and carrying the type's human name,
\* for every component type other than instances that the geometry or the
\* geometry of its instances holds and that is not supported; the instances type
\* is never reported; with an empty supported_types there is no such message.
C9_UnsupportedRealizedTypes ==
  LastGeo =>
    IF geo_decl.supported_types = {} THEN UnsupportedAt = {}
    ELSE LET unsupported == (TypesIn(last.args.geometry_set)
                               \ {"GEO_COMPONENT_TYPE_INSTANCES"})
                            \ geo_decl.supported_types
         IN /\ Cardinality(UnsupportedAt) = Cardinality(unsupported)
            /\ \A t \in unsupported :
                 \E i \in UnsupportedAt : /\ last.diags[i].arg = HumanName(t)
                                          /\ last.diags[i].type = "Info"
            /\ \A i \in UnsupportedAt : last.diags[i].arg # "Instances"

\* C9 witness: instances of a point cloud against a declaration supporting only
\* meshes: the point cloud is reported, the instances are not.
C9_Witness ==
  /\ LastGeo
  /\ geo_decl.supported_types = {"GEO_COMPONENT_TYPE_MESH"}
  /\ last.args.geometry_set.components = {"GEO_COMPONENT_TYPE_INSTANCES"}
  /\ last.args.geometry_set.instanced = {"GEO_COMPONENT_TYPE_POINT_CLOUD"}
  /\ Cardinality(UnsupportedAt) = 1
  /\ \E i \in UnsupportedAt : last.diags[i].arg = "Point Cloud"

(***************************************************************************)
(* Properties of get_input_attribute_data_type and of the logger.          *)
(***************************************************************************)
LastDataType == last.op = "get_input_attribute_data_type"

\* The data type get_input_attribute_data_type is to give for a socket of one
\* of the five types it knows.
ExpectedDataType(socket, component, default_type) ==
  CASE socket.type = "SOCK_STRING" ->
         IF \E attr \in component.attributes : attr.name = input_values[socket.identifier].s
           THEN (CHOOSE attr \in component.attributes :
                   attr.name = input_values[socket.identifier].s).data_type
           ELSE default_type
    [] socket.type = "SOCK_FLOAT"   -> "CD_PROP_FLOAT"
    [] socket.type = "SOCK_VECTOR"  -> "CD_PROP_FLOAT3"
    [] socket.type = "SOCK_RGBA"    -> "CD_PROP_COLOR"
    [] socket.type = "SOCK_BOOLEAN" -> "CD_PROP_BOOL"

\* C11: a get_input_attribute_data_type call on a name bound to a string, float,
\* vector, color or boolean socket returns a data type and no view, halts
\* nothing, and leaves the log and the console as they were; the data type is
\* the one in the named attribute's metadata, or default_type when the component
\* has no such attribute, for a string socket, and float, float3, color or bool
\* for the other four.
C11_DataTypeOfInput ==
  [][(last'.op = "get_input_attribute_data_type"
      /\ BoundSocket(last'.args.name) # nullptr
      /\ Inputs[BoundSocket(last'.args.name)].type
           \in {"SOCK_STRING", "SOCK_FLOAT", "SOCK_VECTOR", "SOCK_RGBA", "SOCK_BOOLEAN"})
     => /\ ~halted'
        /\ log' = log
        /\ console' = console
        /\ last'.diags = <<>>
        /\ last'.result \in CustomDataTypes
        /\ last'.result = ExpectedDataType(Inputs[BoundSocket(last'.args.name)],
                                           last'.args.component,
                                           last'.args.default_type)]_vars

\* C11 witness: the call was made on a string socket naming an attribute the
\* component has, whose data type is not the default_type given.
C11_Witness ==
  /\ LastDataType
  /\ BoundSocket(last.args.name) # nullptr
  /\ Inputs[BoundSocket(last.args.name)].type = "SOCK_STRING"
  /\ \E attr \in last.args.component.attributes :
       /\ attr.name = input_values[Inputs[BoundSocket(last.args.name)].identifier].s
       /\ attr.data_type # last.args.default_type
       /\ last.result = attr.data_type
  /\ ~halted

\* C12: an error_message_add(severity, message) call appends exactly one record,
\* tagged with the node and the severity, to the local log when a logger is
\* attached; without a logger it leaves the log as it was; in both cases nothing
\* halts and nothing is printed.
C12_ErrorMessageAdd ==
  [][(last'.op = "error_message_add")
     => /\ ~halted'
        /\ console' = console
        /\ IF logger
             THEN /\ Len(log') = Len(log) + 1
                  /\ SubSeq(log', 1, Len(log)) = log
                  /\ log'[Len(log')].node = NodeName
                  /\ log'[Len(log')].type = last'.args.type
                  /\ log'[Len(log')].message.text = last'.args.message
             ELSE log' = log]_vars

\* C12 witness: error_message_add was called without a logger and the log is
\* still empty.
C12_Witness ==
  /\ last.op = "error_message_add"
  /\ ~logger
  /\ log = <<>>
  /\ ~halted

(***************************************************************************)
(* The UV sphere node (node_geo_mesh_primitive_uv_sphere.cc).  The arrays  *)
(* of the mesh are functions over 0..total-1.  A fill pass is the sequence *)
(* of the values it writes: every pass but the vertex pass writes at a     *)
(* counter it increments, so its k-th value goes to index k-1.             *)
(***************************************************************************)
MaxSegments == 5
MaxRings == 5

\* The declared ranges of the inputs (geo_node_mesh_primitive_uv_shpere_declare).
SegmentsMin == 3
RingsMin == 2
DeclaredMax == 1024
RadiusMin == 0

sphere_vert_total(segments, rings) == segments * (rings - 1) + 2

sphere_edge_total(segments, rings) == segments * (rings * 2 - 1)

sphere_corner_total(segments, rings) ==
  LET quad_corners == 4 * segments * (rings - 2)
      tri_corners == 3 * segments * 2
  IN quad_corners + tri_corners

\* The face total as the specification computes it for 32 segments and 16 rings
\* (480): one triangle fan short.
sphere_face_total_one_fan(segments, rings) ==
  LET quads == segments * (rings - 2)
      triangles == segments
  IN quads + triangles

sphere_face_total(segments, rings) ==
  LET quads == segments * (rings - 2)
      triangles == segments * 2
  IN quads + triangles

\* IndexRange(start, size) as the sequence of its values.
IndexRange(start, size) == [k \in 1..size |-> start + k - 1]

\* One sequence after the other, for every element of a sequence of sequences.
RECURSIVE ConcatRange(_, _, _)
ConcatRange(seqs, lo, hi) ==
  IF lo > hi THEN <<>>
  ELSE IF lo = hi THEN seqs[lo]
  ELSE LET mid == (lo + hi) \div 2
       IN ConcatRange(seqs, lo, mid) \o ConcatRange(seqs, mid + 1, hi)

Concat(seqs) == ConcatRange(seqs, 1, Len(seqs))

\* An array of `total` zeroed elements (BKE_mesh_new_nomain) after a pass wrote
\* `values` at indices 0, 1, ...; MutableSpan::operator[] asserts the index.
Fill(total, values, zero) ==
  [array |-> [i \in 0..(total - 1) |->
                IF i < Len(values) THEN values[i + 1] ELSE zero],
   count |-> Len(values),
   out_of_bounds |-> Len(values) > total]

\* A vertex: the pole or the (ring, segment) position it was computed from, and
\* the radius its coordinates were scaled by.
MVert(ring, segment, radius) == [ring |-> ring, segment |-> segment, radius |-> radius]

\* calculate_sphere_vertex_data: verts[0], then verts[vert_index++] ring by
\* ring, then verts.last().
calculate_sphere_vertex_data(total, radius, segments, rings) ==
  LET counted == <<MVert(0, 0, radius)>> \o
                 Concat([r \in 1..(rings - 1) |->
                           [s \in 1..segments |->
                              MVert(IndexRange(1, rings - 1)[r],
                                    IndexRange(1, segments)[s], radius)]])
      last_index == total - 1
  IN [array |-> [i \in 0..(total - 1) |->
                   IF i = last_index THEN MVert(rings, 0, radius)
                   ELSE IF i < Len(counted) THEN counted[i + 1]
                   ELSE MVert(0, 0, 0)],
      count |-> Len(counted) + 1,
      out_of_bounds |-> Len(counted) > total \/ total < 1,
      twice |-> last_index < Len(counted)]

MEdge(v1, v2) == [v1 |-> v1, v2 |-> v2]

\* The body of the ring loop of calculate_sphere_edge_indices, from `ring` on.
RECURSIVE EdgeRings(_, _, _, _)
EdgeRings(ring, ring_vert_index_start, segments, rings) ==
  IF ring >= rings - 1 THEN <<>>
  ELSE LET next_ring_vert_index_start == ring_vert_index_start + segments
           along == [k \in 1..segments |->
                       LET segment == IndexRange(0, segments)[k]
                       IN MEdge(ring_vert_index_start + segment,
                                ring_vert_index_start + ((segment + 1) % segments))]
           down == IF ring < rings - 2
                     THEN [k \in 1..segments |->
                             LET segment == IndexRange(0, segments)[k]
                             IN MEdge(ring_vert_index_start + segment,
                                      next_ring_vert_index_start + segment)]
                     ELSE <<>>
       IN along \o down \o
          EdgeRings(ring + 1, ring_vert_index_start + segments, segments, rings)

\* calculate_sphere_edge_indices without its last loop, the edges to the
\* bottom vertex.
calculate_sphere_edge_indices_without_bottom(segments, rings) ==
  LET first_vert_ring_index_start == 1
      top == [k \in 1..segments |->
                LET segment == IndexRange(0, segments)[k]
                IN MEdge(0, first_vert_ring_index_start + segment)]
  IN top \o EdgeRings(0, 1, segments, rings)

\* calculate_sphere_edge_indices: the edges in the order edges[edge_index++]
\* receives them.
calculate_sphere_edge_indices(segments, rings) ==
  LET first_vert_ring_index_start == 1
      top == [k \in 1..segments |->
                LET segment == IndexRange(0, segments)[k]
                IN MEdge(0, first_vert_ring_index_start + segment)]
      last_vert_index == sphere_vert_total(segments, rings) - 1
      last_vert_ring_start == last_vert_index - segments
      bottom == [k \in 1..segments |->
                   LET segment == IndexRange(0, segments)[k]
                   IN MEdge(last_vert_index, last_vert_ring_start + segment)]
  IN top \o EdgeRings(0, 1, segments, rings) \o bottom

MLoop(v, e) == [v |-> v, e |-> e]

\* The body of the ring loop of calculate_sphere_faces: the loops of each quad,
\* quad by quad, for the `left` rings still to do.
RECURSIVE QuadRings(_, _, _, _)
QuadRings(left, ring_vert_index_start, ring_edge_index_start, segments) ==
  IF left <= 0 THEN <<>>
  ELSE LET next_ring_vert_index_start == ring_vert_index_start + segments
           next_ring_edge_index_start == ring_edge_index_start + segments * 2
           ring_vertical_edge_index_start == ring_edge_index_start + segments
       IN [k \in 1..segments |->
             LET segment == IndexRange(0, segments)[k]
             IN <<MLoop(ring_vert_index_start + segment,
                        ring_vertical_edge_index_start + segment),
                  MLoop(next_ring_vert_index_start + segment,
                        next_ring_edge_index_start + segment),
                  MLoop(next_ring_vert_index_start + ((segment + 1) % segments),
                        ring_vertical_edge_index_start + ((segment + 1) % segments)),
                  MLoop(ring_vert_index_start + ((segment + 1) % segments),
                        ring_edge_index_start + segment)>>] \o
          QuadRings(left - 1, ring_vert_index_start + segments,
                    ring_edge_index_start + segments * 2, segments)

\* The faces of calculate_sphere_faces with the triangles of the bottom vertex
\* wound the other way round.
SphereFaceLoops_bottom_reversed(segments, rings) ==
  LET first_vert_ring_index_start == 1
      top == [k \in 1..segments |->
                LET segment == IndexRange(0, segments)[k]
                IN <<MLoop(0, segment),
                     MLoop(first_vert_ring_index_start + segment, segments + segment),
                     MLoop(first_vert_ring_index_start + ((segment + 1) % segments),
                           (segment + 1) % segments)>>]
      last_edge_ring_start == segments * (rings - 2) * 2 + segments
      bottom_edge_fan_start == last_edge_ring_start + segments
      last_vert_index == sphere_vert_total(segments, rings) - 1
      last_vert_ring_start == last_vert_index - segments
      bottom == [k \in 1..segments |->
                   LET segment == IndexRange(0, segments)[k]
                   IN <<MLoop(last_vert_ring_start + segment,
                              last_edge_ring_start + segment),
                        MLoop(last_vert_ring_start + ((segment + 1) % segments),
                              bottom_edge_fan_start + ((segment + 1) % segments)),
                        MLoop(last_vert_index,
                              bottom_edge_fan_start + segment)>>]
  IN top \o QuadRings(Len(IndexRange(1, rings - 2)), 1, segments, segments) \o bottom

\* The faces of calculate_sphere_faces in the order it makes them, each as the
\* loops it writes.
SphereFaceLoops(segments, rings) ==
  LET first_vert_ring_index_start == 1
      top == [k \in 1..segments |->
                LET segment == IndexRange(0, segments)[k]
                IN <<MLoop(0, segment),
                     MLoop(first_vert_ring_index_start + segment, segments + segment),
                     MLoop(first_vert_ring_index_start + ((segment + 1) % segments),
                           (segment + 1) % segments)>>]
      last_edge_ring_start == segments * (rings - 2) * 2 + segments
      bottom_edge_fan_start == last_edge_ring_start + segments
      last_vert_index == sphere_vert_total(segments, rings) - 1
      last_vert_ring_start == last_vert_index - segments
      bottom == [k \in 1..segments |->
                   LET segment == IndexRange(0, segments)[k]
                   IN <<MLoop(last_vert_index,
                              bottom_edge_fan_start + ((segment + 1) % segments)),
                        MLoop(last_vert_ring_start + ((segment + 1) % segments),
                              last_edge_ring_start + segment),
                        MLoop(last_vert_ring_start + segment,
                              bottom_edge_fan_start + segment)>>]
  IN top \o QuadRings(Len(IndexRange(1, rings - 2)), 1, segments, segments) \o bottom

\* The loops written for the faces lo..hi of a sequence of faces.
RECURSIVE LoopCount(_, _, _)
LoopCount(faces, lo, hi) ==
  IF lo > hi THEN 0
  ELSE IF lo = hi THEN Len(faces[lo])
  ELSE LET mid == (lo + hi) \div 2
       IN LoopCount(faces, lo, mid) + LoopCount(faces, mid + 1, hi)

\* poly.loopstart = loop_index; poly.totloop = the number of loops of the face;
\* loop_index advances by one per loop written.
RECURSIVE PolysFrom(_, _, _, _)
PolysFrom(faces, lo, hi, loop_index) ==
  IF lo > hi THEN <<>>
  ELSE IF lo = hi THEN <<[loopstart |-> loop_index, totloop |-> Len(faces[lo])]>>
  ELSE LET mid == (lo + hi) \div 2
       IN PolysFrom(faces, lo, mid, loop_index) \o
          PolysFrom(faces, mid + 1, hi, loop_index + LoopCount(faces, lo, mid))

\* calculate_sphere_faces with every polygon starting at loop 0.
calculate_sphere_faces_restarting(segments, rings) ==
  LET faces == SphereFaceLoops(segments, rings)
  IN [loops |-> Concat(faces),
      polys |-> [k \in 1..Len(faces) |-> [loopstart |-> 0, totloop |-> Len(faces[k])]]]

\* calculate_sphere_faces: what loops[loop_index++] and polys[poly_index++]
\* receive, in order.
calculate_sphere_faces(segments, rings) ==
  LET faces == SphereFaceLoops(segments, rings)
  IN [loops |-> Concat(faces), polys |-> PolysFrom(faces, 1, Len(faces), 0)]

\* A uv: u in units of 1 / (2 * segments), v in units of 1 / rings.
float2(u, v) == [u |-> u, v |-> v]

\* calculate_sphere_uvs: what uvs[loop_index++] receives, in order.
calculate_sphere_uvs(segments, rings) ==
  LET dy == 1
      top == Concat([k \in 1..segments |->
                LET segment == IndexRange(0, segments)[k]
                IN <<float2(2 * segment + 1, 0),
                     float2(2 * segment, dy),
                     float2(2 * (segment + 1), dy)>>])
      quads == Concat([r \in 1..(rings - 2) |->
                 Concat([k \in 1..segments |->
                   LET ring == IndexRange(1, rings - 2)[r]
                       segment == IndexRange(0, segments)[k]
                   IN <<float2(2 * segment, ring),
                        float2(2 * segment, ring + 1),
                        float2(2 * (segment + 1), ring + 1),
                        float2(2 * (segment + 1), ring)>>])])
      bottom == Concat([k \in 1..segments |->
                  LET segment == IndexRange(0, segments)[k]
                  IN <<float2(2 * segment + 1, rings),
                       float2(2 * (segment + 1), rings - dy),
                       float2(2 * segment, rings - dy)>>])
  IN top \o quads \o bottom

\* BKE_mesh_is_valid, as far as the topology goes: edges join two different
\* vertices of the mesh, loops refer to vertices and edges of the mesh, the
\* polygons take the loops block after block, and the edge of a loop joins the
\* loop's vertex to the vertex of the next loop of its polygon.
BKE_mesh_is_valid(mesh) ==
  /\ \A i \in DOMAIN mesh.medge :
       /\ mesh.medge[i].v1 # mesh.medge[i].v2
       /\ mesh.medge[i].v1 \in DOMAIN mesh.mvert
       /\ mesh.medge[i].v2 \in DOMAIN mesh.mvert
  /\ \A i \in DOMAIN mesh.mloop :
       /\ mesh.mloop[i].v \in DOMAIN mesh.mvert
       /\ mesh.mloop[i].e \in DOMAIN mesh.medge
  /\ \A k \in DOMAIN mesh.mpoly :
       LET poly == mesh.mpoly[k]
       IN /\ poly.totloop >= 3
          /\ poly.loopstart = (IF k = 0 THEN 0
                               ELSE mesh.mpoly[k - 1].loopstart + mesh.mpoly[k - 1].totloop)
          /\ poly.loopstart + poly.totloop <= mesh.totloop
          /\ \A j \in 0..(poly.totloop - 1) :
               LET loop == mesh.mloop[poly.loopstart + j]
                   next == mesh.mloop[poly.loopstart + ((j + 1) % poly.totloop)]
                   edge == mesh.medge[loop.e]
               IN {edge.v1, edge.v2} = {loop.v, next.v}

\* BKE_mesh_new_nomain and the arrays the passes leave in it; `written` keeps
\* the counters the passes ended with.
SphereMesh(totvert, totedge, totloop, totpoly, verts, edges, loops, polys, uvs) ==
  [totvert |-> totvert, totedge |-> totedge, totloop |-> totloop, totpoly |-> totpoly,
   mvert |-> verts.array, medge |-> edges.array, mloop |-> loops.array,
   mpoly |-> polys.array, uv_map |-> uvs.array,
   written |-> [verts |-> verts.count, edges |-> edges.count, loops |-> loops.count,
                polys |-> polys.count, uvs |-> uvs.count],
   twice |-> verts.twice]

NoFill == [array |-> <<>>, count |-> 0, out_of_bounds |-> FALSE, twice |-> FALSE]

NoMesh == SphereMesh(0, 0, 0, 0, NoFill, NoFill, NoFill, NoFill, NoFill)

\* create_uv_sphere_mesh: the mesh, and the assertion that failed on the way.
create_uv_sphere_mesh(radius, segments, rings) ==
  LET totvert == sphere_vert_total(segments, rings)
      totedge == sphere_edge_total(segments, rings)
      totloop == sphere_corner_total(segments, rings)
      totpoly == sphere_face_total(segments, rings)
      verts == calculate_sphere_vertex_data(totvert, radius, segments, rings)
      edges == Fill(totedge, calculate_sphere_edge_indices(segments, rings), MEdge(0, 0))
      faces == calculate_sphere_faces(segments, rings)
      loops == Fill(totloop, faces.loops, MLoop(0, 0))
      polys == Fill(totpoly, faces.polys, [loopstart |-> 0, totloop |-> 0])
      uvs == Fill(totloop, calculate_sphere_uvs(segments, rings), float2(0, 0))
      mesh == SphereMesh(totvert, totedge, totloop, totpoly, verts, edges, loops, polys, uvs)
  IN [mesh |-> mesh,
      assert |-> IF \/ verts.out_of_bounds \/ edges.out_of_bounds \/ loops.out_of_bounds
                    \/ polys.out_of_bounds \/ uvs.out_of_bounds
                   THEN "BLI_assert(index < size)"
                 ELSE IF ~BKE_mesh_is_valid(mesh)
                   THEN "BLI_assert(BKE_mesh_is_valid(mesh))"
                 ELSE ""]

\* GeometrySet() and GeometrySet::create_with_mesh(mesh).
EmptyGeometrySet == [components |-> {}, instanced |-> {}, mesh |-> NoMesh]

create_with_mesh(mesh) ==
  [components |-> {"GEO_COMPONENT_TYPE_MESH"}, instanced |-> {}, mesh |-> mesh]

SphereInputIds == {"Segments", "Rings", "Radius"}

\* geo_node_mesh_primitive_uv_sphere_exec: what it extracts, reports and sets
\* the "Mesh" output to.
geo_node_mesh_primitive_uv_sphere_exec ==
  LET segments_num == input_values["Segments"].v[1]
      rings_num == input_values["Rings"].v[1]
  IN IF segments_num < 3 \/ rings_num < 2
       THEN [halted |-> FALSE, assert |-> "",
             diags |-> (IF segments_num < 3
                          THEN <<Diagnostic("Info", "Segments must be at least 3", "")>>
                          ELSE <<>>) \o
                       (IF rings_num < 3
                          THEN <<Diagnostic("Info", "Rings must be at least 3", "")>>
                          ELSE <<>>),
             extracted |-> <<"Segments", "Rings">>,
             output |-> EmptyGeometrySet]
     ELSE LET radius == input_values["Radius"].v[1]
              made == create_uv_sphere_mesh(radius, segments_num, rings_num)
          IN [halted |-> made.assert # "", assert |-> made.assert, diags |-> <<>>,
              extracted |-> <<"Segments", "Rings", "Radius">>,
              output |-> create_with_mesh(made.mesh)]

\* UvSphereExec: the node's execute callback, run once on the inputs it was
\* given; its three inputs are declared, available and of the types it asks
\* for, so the access checks let every extract_input and the set_output through.
UvSphereExec ==
  /\ ~halted
  /\ DOMAIN input_values = SphereInputIds
  /\ consumed = {}
  /\ outputs_set = {}
  /\ LET r == geo_node_mesh_primitive_uv_sphere_exec
     IN /\ halted' = r.halted
        /\ log' = AddAll(log, r.diags)
        /\ consumed' = consumed \cup {r.extracted[i] : i \in DOMAIN r.extracted}
        /\ was_read' = was_read \cup {r.extracted[i] : i \in DOMAIN r.extracted}
        /\ outputs_set' = IF r.halted THEN outputs_set ELSE outputs_set \cup {"Mesh"}
        /\ last' = Outcome("geo_node_mesh_primitive_uv_sphere_exec",
                           [segments |-> input_values["Segments"].v[1],
                            rings |-> input_values["Rings"].v[1],
                            radius |-> input_values["Radius"].v[1]],
                           r.halted, r.assert, r.diags, r.output, r.extracted)
  /\ UNCHANGED <<addon_list, ensured, unavail, out_unavail, input_values, geo_decl, logger, console>>

(***************************************************************************)
(* SpecSphere: one execution of the UV sphere node on each of the inputs   *)
(* explored: every pair of sizes up to MaxSegments and MaxRings with a     *)
(* negative, a zero and a unit radius, and the default inputs of the node  *)
(* (32 segments, 16 rings, radius 1.0).  A radius is held in halves.       *)
(***************************************************************************)
SphereRadii == {-2, 0, 2}

SphereArguments ==
  {<<segments, rings, radius>> : segments \in 1..MaxSegments, rings \in 1..MaxRings,
                                 radius \in SphereRadii}
  \cup {<<32, 16, 2>>}

InitSphere ==
  \E arguments \in SphereArguments, has_logger \in BOOLEAN :
    /\ unavail = {}
    /\ out_unavail = {}
    /\ input_values = [id \in SphereInputIds |->
                         CASE id = "Segments" -> Value("int", <<arguments[1]>>, "")
                           [] id = "Rings" -> Value("int", <<arguments[2]>>, "")
                           [] id = "Radius" -> Value("float", <<arguments[3]>>, "")]
    /\ consumed = {}
    /\ outputs_set = {}
    /\ geo_decl = DefaultDeclaration
    /\ logger = has_logger
    /\ log = <<>>
    /\ console = <<>>
    /\ halted = FALSE
    /\ last = NoCall
    /\ was_read = {}
    /\ addon_list = <<>>
    /\ ensured = {}

NextSphere == UvSphereExec

SpecSphere == InitSphere /\ [][NextSphere]_vars

(***************************************************************************)
(* Properties of the UV sphere node.                                       *)
(***************************************************************************)
LastSphere == last.op = "geo_node_mesh_primitive_uv_sphere_exec"

\* The "Mesh" output was set to a geometry holding a mesh; that mesh.
MeshBuilt == "Mesh" \in outputs_set /\ "GEO_COMPONENT_TYPE_MESH" \in last.result.components

OutputEmpty == "Mesh" \in outputs_set /\ last.result.components = {}

LastMesh == last.result.mesh

DefaultSphere == last.args.segments = 32 /\ last.args.rings = 16 /\ last.args.radius = 2

\* C13 as stated: the node run with segments = 32, rings = 16 and radius = 1.0
\* sets its output to a mesh of 482 vertices, 992 edges and 480 faces.
C13_Original_480Faces ==
  (LastSphere /\ DefaultSphere) =>
    /\ MeshBuilt
    /\ Cardinality(DOMAIN LastMesh.mvert) = 482
    /\ Cardinality(DOMAIN LastMesh.medge) = 992
    /\ Cardinality(DOMAIN LastMesh.mpoly) = 480

\* C13 amended: the node run with segments = 32, rings = 16 and radius = 1.0
\* sets its output to a mesh of 482 vertices, 992 edges and 512 faces (448 quads
\* and two fans of 32 triangles), and fails no assertion.
C13_DefaultSphereTotals ==
  (LastSphere /\ DefaultSphere) =>
    /\ ~halted
    /\ MeshBuilt
    /\ Cardinality(DOMAIN LastMesh.mvert) = 482 /\ LastMesh.totvert = 482
    /\ Cardinality(DOMAIN LastMesh.medge) = 992 /\ LastMesh.totedge = 992
    /\ Cardinality(DOMAIN LastMesh.mpoly) = 512 /\ LastMesh.totpoly = 512
    /\ LastMesh.written.polys = 512

\* C13 witness: the node was run on 32 segments, 16 rings and radius 1.0 and
\* built a mesh.
C13_Witness == LastSphere /\ DefaultSphere /\ MeshBuilt /\ LastMesh.totvert > 0

\* C14 as stated: the node run with Segments below 3 and Rings within its
\* declared range [2, 1024] sets the output to an empty GeometrySet and emits
\* exactly one diagnostic, of Info severity, "Segments must be at least 3".
C14_OneSegmentsDiagnostic ==
  (LastSphere /\ last.args.segments < SegmentsMin
              /\ last.args.rings \in RingsMin..DeclaredMax) =>
    /\ ~halted
    /\ OutputEmpty
    /\ Len(last.diags) = 1
    /\ last.diags[1].type = "Info"
    /\ last.diags[1].message = "Segments must be at least 3"

\* C15 as stated: whenever Segments is outside [3, 1024], Rings outside
\* [2, 1024] or Radius below 0, the output is an empty GeometrySet, no mesh is
\* built and nothing halts.
C15_OutOfRangeGivesEmpty ==
  (LastSphere /\ (\/ last.args.segments \notin SegmentsMin..DeclaredMax
                  \/ last.args.rings \notin RingsMin..DeclaredMax
                  \/ last.args.radius < RadiusMin)) =>
    /\ ~halted
    /\ OutputEmpty
    /\ LastMesh = NoMesh

\* The runs C16 to C18 are about: a mesh was to be built.
SphereAccepted ==
  LastSphere /\ last.args.segments >= SegmentsMin /\ last.args.rings >= RingsMin

\* C16: for segments >= 3 and rings >= 2 the arrays have the closed-form sizes,
\* no pass writes outside its array (no index assertion fails), the vertex pass
\* writes no index twice, and every pass ends with its counter at the size of
\* its array: vertices, edges, loops, polygons, and as many uvs as corners.
C16_ExactFill ==
  SphereAccepted =>
    LET segments == last.args.segments
        rings == last.args.rings
        mesh == LastMesh
    IN /\ last.assert # "BLI_assert(index < size)"
       /\ DOMAIN mesh.mvert = 0..(segments * (rings - 1) + 2 - 1)
       /\ DOMAIN mesh.medge = 0..(segments * (2 * rings - 1) - 1)
       /\ DOMAIN mesh.mloop = 0..(4 * segments * (rings - 2) + 6 * segments - 1)
       /\ DOMAIN mesh.mpoly = 0..(segments * (rings - 2) + 2 * segments - 1)
       /\ DOMAIN mesh.uv_map = DOMAIN mesh.mloop
       /\ mesh.written.verts = mesh.totvert /\ ~mesh.twice
       /\ mesh.written.edges = mesh.totedge
       /\ mesh.written.loops = mesh.totloop
       /\ mesh.written.polys = mesh.totpoly
       /\ mesh.written.uvs = mesh.totloop
       /\ mesh.totvert = Cardinality(DOMAIN mesh.mvert)
       /\ mesh.totedge = Cardinality(DOMAIN mesh.medge)
       /\ mesh.totloop = Cardinality(DOMAIN mesh.mloop)
       /\ mesh.totpoly = Cardinality(DOMAIN mesh.mpoly)

\* C16 witness: a sphere with quads (rings > 2) was built.
C16_Witness ==
  SphereAccepted /\ MeshBuilt /\ last.args.rings = 3 /\ last.args.segments = 4

\* The loop after loop j of a polygon, cyclically.
NextLoopOf(poly, j) == poly.loopstart + ((j + 1 - poly.loopstart) % poly.totloop)

\* C17: for segments >= 3 and rings >= 2 the validity assertion holds and the
\* topology is consistent: edges have two distinct endpoints among the
\* vertices, loops refer to vertices and edges of the mesh, the polygons take
\* the loops block after block from 0, and the edge of every loop joins the
\* loop's vertex to the vertex of the next loop of the polygon.
C17_ConsistentTopology ==
  SphereAccepted =>
    LET mesh == LastMesh
    IN /\ ~halted
       /\ last.assert = ""
       /\ \A i \in DOMAIN mesh.medge :
            /\ mesh.medge[i].v1 # mesh.medge[i].v2
            /\ {mesh.medge[i].v1, mesh.medge[i].v2} \subseteq 0..(mesh.totvert - 1)
       /\ \A i \in DOMAIN mesh.mloop :
            /\ mesh.mloop[i].v \in 0..(mesh.totvert - 1)
            /\ mesh.mloop[i].e \in 0..(mesh.totedge - 1)
       /\ mesh.mpoly[0].loopstart = 0
       /\ \A k \in DOMAIN mesh.mpoly :
            /\ (k + 1) \in DOMAIN mesh.mpoly =>
                 mesh.mpoly[k + 1].loopstart = mesh.mpoly[k].loopstart + mesh.mpoly[k].totloop
            /\ \A j \in mesh.mpoly[k].loopstart..(mesh.mpoly[k].loopstart
                                                    + mesh.mpoly[k].totloop - 1) :
                 /\ j \in DOMAIN mesh.mloop
                 /\ {mesh.medge[mesh.mloop[j].e].v1, mesh.medge[mesh.mloop[j].e].v2}
                      = {mesh.mloop[j].v, mesh.mloop[NextLoopOf(mesh.mpoly[k], j)].v}

\* C17 witness: a sphere of triangles only (rings = 2) was built and passed the
\* validity assertion.
C17_Witness ==
  SphereAccepted /\ MeshBuilt /\ ~halted /\ last.args.rings = 2 /\ last.args.segments = 3

\* The polygon a loop belongs to, and the vertex the loop's edge is walked to.
PolyOfLoop(mesh, j) ==
  CHOOSE k \in DOMAIN mesh.mpoly :
    j \in mesh.mpoly[k].loopstart..(mesh.mpoly[k].loopstart + mesh.mpoly[k].totloop - 1)

LoopTarget(mesh, j) == mesh.mloop[NextLoopOf(mesh.mpoly[PolyOfLoop(mesh, j)], j)].v

\* C18: for segments >= 3 and rings >= 2 no two edges join the same two
\* vertices, every edge is the edge of exactly two loops, these belong to two
\* different polygons and walk the edge in opposite directions, and
\* vertices - edges + faces = 2.
C18_ClosedOrientedSurface ==
  SphereAccepted =>
    LET mesh == LastMesh
    IN /\ \A a, b \in DOMAIN mesh.medge :
            a # b => {mesh.medge[a].v1, mesh.medge[a].v2}
                       # {mesh.medge[b].v1, mesh.medge[b].v2}
       /\ \A e \in DOMAIN mesh.medge :
            LET users == {j \in DOMAIN mesh.mloop : mesh.mloop[j].e = e}
            IN /\ Cardinality(users) = 2
               /\ \A j1, j2 \in users :
                    j1 # j2 =>
                      /\ PolyOfLoop(mesh, j1) # PolyOfLoop(mesh, j2)
                      /\ mesh.mloop[j1].v = LoopTarget(mesh, j2)
                      /\ mesh.mloop[j2].v = LoopTarget(mesh, j1)
       /\ mesh.totvert - mesh.totedge + mesh.totpoly = 2

\* C18 witness: the largest sphere of the small sizes was built.
C18_Witness ==
  SphereAccepted /\ MeshBuilt /\ ~halted
  /\ last.args.segments = MaxSegments /\ last.args.rings = MaxRings

(***************************************************************************)
(* get_input_attribute against get_input_attribute_data_type.              *)
(***************************************************************************)
\* C19 as stated: on a name bound to an available socket, a get_input_attribute
\* call fails an assertion exactly when get_input_attribute_data_type on the
\* same name and component does, and the other way round: the two accept the
\* same socket types.
C19_SameSocketTypes ==
  /\ (LastAttr /\ BoundSocket(last.args.name) # nullptr) =>
       (last.halted <=>
          get_input_attribute_data_type(last.args.name, last.args.component,
                                        last.args.type).halted)
  /\ (LastDataType /\ BoundSocket(last.args.name) # nullptr) =>
       (last.halted <=>
          get_input_attribute(last.args.name, last.args.component, "ATTR_DOMAIN_POINT",
                              last.args.default_type, NoValue).halted)

(***************************************************************************)
(* The add-on list (blenkernel/intern/addon.c).  A module name is a        *)
(* sequence of characters; bAddon.module is a character array of           *)
(* ModuleSize bytes, so it holds at most ModuleSize - 1 characters.  An    *)
(* addon is its allocation and the module name stored in it.               *)
(***************************************************************************)
MaxAddons == 3

\* sizeof(addon->module), scaled down.
ModuleSize == 3

NULL == [null |-> TRUE]

Characters == {"a"}

\* The names tried: every length from the empty name to one that takes
\* ModuleSize characters and so does not fit the array.
ModuleNames == UNION {[1..n -> Characters] : n \in 0..ModuleSize}

\* BLI_strncpy when the array is taken to hold any name whole.
BLI_strncpy_unbounded(src, maxncpy) == src

\* BLI_strncpy(dst, src, maxncpy): at most maxncpy - 1 characters of src, then
\* the terminating zero.
BLI_strncpy(src, maxncpy) ==
  IF Len(src) <= maxncpy - 1 THEN src ELSE SubSeq(src, 1, maxncpy - 1)

\* BLI_findstring(addon_list, module, offsetof(bAddon, module)): the index of
\* the first addon whose module equals the name, 0 when there is none.
BLI_findstring(list, module) ==
  FirstIndex({i \in DOMAIN list : list[i].module = module})

\* BKE_addon_find: the addon found, or NULL.
BKE_addon_find(list, module) ==
  IF BLI_findstring(list, module) = 0 THEN NULL
  ELSE list[BLI_findstring(list, module)]

\* BKE_addon_new: a zeroed allocation that no addon of the list occupies.
BKE_addon_new(list) ==
  [null |-> FALSE,
   address |-> CHOOSE a \in 1..(Len(list) + 1) :
                 /\ \A i \in DOMAIN list : list[i].address # a
                 /\ \A b \in 1..(a - 1) : \E i \in DOMAIN list : list[i].address = b,
   module |-> <<>>]

\* BKE_addon_ensure: the list afterwards and the addon returned.
BKE_addon_ensure(list, module) ==
  LET addon == BKE_addon_find(list, module)
  IN IF addon = NULL
       THEN LET new == [BKE_addon_new(list) EXCEPT
                          !.module = BLI_strncpy(module, ModuleSize)]
            IN [list |-> Append(list, new), result |-> new]
     ELSE [list |-> list, result |-> addon]

\* BLI_remlink: the list without its i-th link.
BLI_remlink(list, i) == SubSeq(list, 1, i - 1) \o SubSeq(list, i + 1, Len(list))

\* BKE_addon_remove_safe: the list afterwards and the bool returned.
BKE_addon_remove_safe(list, module) ==
  LET addon == BLI_findstring(list, module)
  IN IF addon # 0
       THEN [list |-> BLI_remlink(list, addon), result |-> TRUE]
     ELSE [list |-> list, result |-> FALSE]

AddonEnsure(module) ==
  /\ Len(addon_list) < MaxAddons
  /\ LET r == BKE_addon_ensure(addon_list, module)
     IN /\ addon_list' = r.list
        /\ last' = Outcome("BKE_addon_ensure", [module |-> module], FALSE, "", <<>>,
                           r.result, <<>>)
  /\ ensured' = ensured \cup {module}
  /\ UNCHANGED <<unavail, out_unavail, input_values, consumed, outputs_set, geo_decl,
                 logger, log, console, halted, was_read>>

AddonRemoveSafe(module) ==
  /\ LET r == BKE_addon_remove_safe(addon_list, module)
     IN /\ addon_list' = r.list
        /\ last' = Outcome("BKE_addon_remove_safe", [module |-> module], FALSE, "", <<>>,
                           r.result, <<>>)
  /\ ensured' = ensured \ {module}
  /\ UNCHANGED <<unavail, out_unavail, input_values, consumed, outputs_set, geo_decl,
                 logger, log, console, halted, was_read>>

AddonFind(module) ==
  /\ last' = Outcome("BKE_addon_find", [module |-> module], FALSE, "", <<>>,
                     BKE_addon_find(addon_list, module), <<>>)
  /\ UNCHANGED <<addon_list, ensured, unavail, out_unavail, input_values, consumed,
                 outputs_set, geo_decl, logger, log, console, halted, was_read>>

(***************************************************************************)
(* SpecAddon: any calls of BKE_addon_ensure, BKE_addon_remove_safe and     *)
(* BKE_addon_find on a list that starts empty.                             *)
(***************************************************************************)
InitAddon ==
  /\ addon_list = <<>>
  /\ ensured = {}
  /\ unavail = {}
  /\ out_unavail = {}
  /\ input_values = <<>>
  /\ consumed = {}
  /\ outputs_set = {}
  /\ geo_decl = DefaultDeclaration
  /\ logger = FALSE
  /\ log = <<>>
  /\ console = <<>>
  /\ halted = FALSE
  /\ last = NoCall
  /\ was_read = {}

NextAddon ==
  \E module \in ModuleNames :
    \/ AddonEnsure(module)
    \/ AddonRemoveSafe(module)
    \/ AddonFind(module)

SpecAddon == InitAddon /\ [][NextAddon]_vars

\* C20 as stated: the list holds at most one addon per module name;
\* BKE_addon_ensure(m) for an m ensured before and not removed since returns an
\* addon that was in the list and leaves the length of the list as it was;
\* BKE_addon_remove_safe(m) returns true exactly when m was ensured before and
\* not removed since, and BKE_addon_find(m) is NULL after it.
C20_OneAddonPerModule ==
  [][/\ \A i, j \in DOMAIN addon_list' :
          i # j => addon_list'[i].module # addon_list'[j].module
     /\ (last'.op = "BKE_addon_ensure" /\ last'.args.module \in ensured) =>
          /\ Len(addon_list') = Len(addon_list)
          /\ \E i \in DOMAIN addon_list : addon_list[i] = last'.result
     /\ (last'.op = "BKE_addon_remove_safe") =>
          /\ last'.result = (last'.args.module \in ensured)
          /\ BKE_addon_find(addon_list', last'.args.module) = NULL]_vars

====
